---- MODULE Spec2Model ----
(***************************************************************************)
(* A model of silicube's sandbox box lifecycle and pool                     *)
(* (crates/silicube/src/isolate/box_manager.rs), of the supervisor process  *)
(* driver (isolate/process.rs) and of the runner entry points that drive    *)
(* them (runner/compile.rs, runner/execute.rs, runner/interactive.rs).      *)
(***************************************************************************)
EXTENDS Integers, Sequences, FiniteSets, Bags, TLC

(***************************************************************************)
(* Bounds of the model.                                                     *)
(***************************************************************************)
\* Number of caller tasks that use the pool concurrently.
NumTasks == 2
\* Largest pool capacity (BoxPool::new's count) that is explored.
MaxCount == 2
\* Number of times the acquisition counter is advanced in one behaviour.
MaxAcquire == 3

\* Number of calls (IsolateBox::init, Runner handlers, file operations) the
\* owner of a single box makes in one behaviour.
MaxCalls == 3
\* Largest number of pieces of a file name the file operations are called with.
MaxNameLen == 3
\* Largest number of writes the handles of an event stream submit.
MaxWrites == 2
\* Largest number of chunks the child of an interactive session writes to stdout.
MaxChunks == 2
\* Largest number of lines the child of an interactive session writes to stdout.
MaxLines == 2
\* Largest number of entries pushed on a list of an IsolateCommand.
MaxPushes == 1
\* Largest number of characters of a meta file that is parsed.
MaxText == 6
\* Largest number of pieces of the message of a meta file.
MaxMessage == 2

Tasks == 1..NumTasks

(***************************************************************************)
(* u32 arithmetic.  A u32 is the pair <<hi, lo>> of its 16-bit halves, so   *)
(* that the full 32-bit width is kept.                                      *)
(***************************************************************************)
Half == 65536

U32Of(n) == <<n \div Half, n % Half>>

U32Max == <<Half - 1, Half - 1>>

U32Lt(a, b) == a[1] < b[1] \/ (a[1] = b[1] /\ a[2] < b[2])

\* a + b overflows u32
AddOverflows(a, b) == a[1] + b[1] + ((a[2] + b[2]) \div Half) >= Half

\* a.wrapping_add(b)
WrappingAdd(a, b) ==
    <<(a[1] + b[1] + ((a[2] + b[2]) \div Half)) % Half, (a[2] + b[2]) % Half>>

\* a.wrapping_sub(b)
WrappingSub(a, b) ==
    LET borrow == IF a[2] < b[2] THEN 1 ELSE 0
    IN  <<(a[1] + Half - b[1] - borrow) % Half, (a[2] + Half - b[2]) % Half>>

\* a % c for a u32 a and a small positive c
RemSmall(a, c) == (((a[1] % c) * (Half % c)) + (a[2] % c)) % c

(***************************************************************************)
(* Texts.  A text (a file name, a path, an argument) is the sequence of its *)
(* pieces: ".", "/" and ":" are pieces of their own, every other piece is a *)
(* run of characters that holds none of them.  An Option is a sequence of   *)
(* at most one element.                                                     *)
(***************************************************************************)
None == <<>>

Some(x) == <<x>>

\* format!("{}", box_id): the decimal digits of a small id, and a text of
\* its own for every other id
IdText(id) ==
    IF id[1] = 0 THEN ToString(id[2])
    ELSE ToString(id[1]) \o "*65536+" \o ToString(id[2])

(***************************************************************************)
(* ResourceLimits.  A limit in seconds (an f64) is held in tenths of a      *)
(* second; the other limits are integers.                                   *)
(***************************************************************************)
\* Option::or
or(a, b) == IF a /= None THEN a ELSE b

\* ResourceLimits::with_overrides that prefers the base's value
with_overridesPreferringBase(self, overrides) ==
    [f \in DOMAIN self |-> or(self[f], overrides[f])]

\* ResourceLimits::with_overrides
with_overrides(self, overrides) ==
    [time_limit |-> or(overrides.time_limit, self.time_limit),
     wall_time_limit |-> or(overrides.wall_time_limit, self.wall_time_limit),
     memory_limit |-> or(overrides.memory_limit, self.memory_limit),
     stack_limit |-> or(overrides.stack_limit, self.stack_limit),
     max_processes |-> or(overrides.max_processes, self.max_processes),
     max_output |-> or(overrides.max_output, self.max_output),
     max_open_files |-> or(overrides.max_open_files, self.max_open_files),
     extra_time |-> or(overrides.extra_time, self.extra_time)]

\* impl Default for ResourceLimits
DefaultLimits ==
    [time_limit |-> Some(20), wall_time_limit |-> Some(50),
     memory_limit |-> Some(262144), stack_limit |-> Some(262144),
     max_processes |-> Some(1), max_output |-> Some(65536),
     max_open_files |-> Some(64), extra_time |-> Some(5)]

\* the record whose fields are all None
NoLimits == [f \in DOMAIN DefaultLimits |-> None]

\* ResourceLimits::new
NewLimits == DefaultLimits

\* ResourceLimits::with_time_limit
with_time_limit(self, seconds) == [self EXCEPT !.time_limit = Some(seconds)]

\* format!("{}", x) of an f64 held in tenths
F64Text(x) ==
    IF x % 10 = 0 THEN ToString(x \div 10)
    ELSE ToString(x \div 10) \o "." \o ToString(x % 10)

(***************************************************************************)
(* IsolateCommand: the supervisor's argument vector, a sequence of texts.   *)
(***************************************************************************)
\* IsolateCommand::new(isolate_path, box_id)
NewCommand(isolate_path, box_id) ==
    [isolate_path |-> isolate_path, action |-> "Run", box_id |-> box_id,
     limits |-> DefaultLimits, mounts |-> <<>>, env |-> <<>>,
     env_inherit |-> <<>>, full_env |-> FALSE,
     meta_file |-> None, stdin |-> None, stdout |-> None, stderr |-> None,
     working_dir |-> None, command |-> <<>>, cgroup |-> FALSE]

\* if let Some(ref v) = opt { args.push(format!("<flag>{}", v)) }
OptArg(flag, opt) == IF opt = None THEN <<>> ELSE <<(<<flag>> \o opt[1])>>

\* A mutant of LimitArg: the flag is passed whether or not the limit is set.
LimitArgOfAbsent(flag, opt, text) == <<(<<flag, text>>)>>

\* if let Some(v) = limit { args.push(format!("<flag>{v}")) }
LimitArg(flag, opt, text) == IF opt = None THEN <<>> ELSE <<(<<flag, text>>)>>

\* A mutant of LimitArgs: the memory limit is always passed as --mem.
LimitArgsMemOnly(limits, cgroup) ==
    LET Dec(opt) == IF opt = None THEN "" ELSE ToString(opt[1])
        F64(opt) == IF opt = None THEN "" ELSE F64Text(opt[1])
    IN  LimitArg("--time=", limits.time_limit, F64(limits.time_limit))
        \o LimitArg("--wall-time=", limits.wall_time_limit, F64(limits.wall_time_limit))
        \o LimitArg("--extra-time=", limits.extra_time, F64(limits.extra_time))
        \o LimitArg("--mem=", limits.memory_limit, Dec(limits.memory_limit))
        \o LimitArg("--stack=", limits.stack_limit, Dec(limits.stack_limit))
        \o LimitArg("--processes=", limits.max_processes, Dec(limits.max_processes))
        \o LimitArg("--fsize=", limits.max_output, Dec(limits.max_output))
        \o LimitArg("--open-files=", limits.max_open_files, Dec(limits.max_open_files))

\* the limit flags of a Run command
LimitArgs(limits, cgroup) ==
    LET Dec(opt) == IF opt = None THEN "" ELSE ToString(opt[1])
        F64(opt) == IF opt = None THEN "" ELSE F64Text(opt[1])
    IN  LimitArg("--time=", limits.time_limit, F64(limits.time_limit))
        \o LimitArg("--wall-time=", limits.wall_time_limit, F64(limits.wall_time_limit))
        \o LimitArg("--extra-time=", limits.extra_time, F64(limits.extra_time))
        \o LimitArg(IF cgroup THEN "--cg-mem=" ELSE "--mem=",
                    limits.memory_limit, Dec(limits.memory_limit))
        \o LimitArg("--stack=", limits.stack_limit, Dec(limits.stack_limit))
        \o LimitArg("--processes=", limits.max_processes, Dec(limits.max_processes))
        \o LimitArg("--fsize=", limits.max_output, Dec(limits.max_output))
        \o LimitArg("--open-files=", limits.max_open_files, Dec(limits.max_open_files))

\* the --dir flags of a Run command: an optional mount whose source the
\* host does not have is skipped
RECURSIVE MountArgs(_, _)
MountArgs(mounts, host) ==
    IF mounts = <<>> THEN <<>>
    ELSE LET Flag(m) ==
                 IF m.optional /\ m.source \notin host THEN <<>>
                 ELSE <<(<<"--dir=">> \o m.target \o <<"=">> \o m.source
                         \o (IF m.writable THEN <<":", "rw">> ELSE <<>>)
                         \o (IF m.optional THEN <<":", "maybe">> ELSE <<>>))>>
         IN  Flag(Head(mounts)) \o MountArgs(Tail(mounts), host)

\* the --env flags of a Run command; env holds the entries of the map in
\* the order its iteration yields them
EnvArgs(env) ==
    [i \in 1..Len(env) |-> <<"--env=", env[i].key, "=">> \o env[i].value]

\* A mutant of build: the environment is passed for every action.
buildEnvForEveryAction(cmd, host) ==
    <<cmd.isolate_path, <<"--box-id=", IdText(cmd.box_id)>>>>
    \o (IF cmd.cgroup THEN <<(<<"--cg">>)>> ELSE <<>>)
    \o (CASE cmd.action = "Init" -> <<(<<"--init">>)>> \o EnvArgs(cmd.env)
          [] cmd.action = "Cleanup" -> <<(<<"--cleanup">>)>> \o EnvArgs(cmd.env)
          [] OTHER ->
                <<(<<"--run">>)>>
                \o LimitArgs(cmd.limits, cmd.cgroup)
                \o MountArgs(cmd.mounts, host)
                \o (IF cmd.full_env THEN <<(<<"--full-env">>)>> ELSE <<>>)
                \o EnvArgs(cmd.env)
                \o [i \in 1..Len(cmd.env_inherit) |-> <<"--env=", cmd.env_inherit[i]>>]
                \o OptArg("--meta=", cmd.meta_file)
                \o OptArg("--stdin=", cmd.stdin)
                \o OptArg("--stdout=", cmd.stdout)
                \o OptArg("--stderr=", cmd.stderr)
                \o OptArg("--chdir=", cmd.working_dir)
                \o <<(<<"--">>)>> \o cmd.command)

\* A mutant of build: the working directory is passed before the meta file.
buildChdirFirst(cmd, host) ==
    <<cmd.isolate_path, <<"--box-id=", IdText(cmd.box_id)>>>>
    \o (IF cmd.cgroup THEN <<(<<"--cg">>)>> ELSE <<>>)
    \o (CASE cmd.action = "Init" -> <<(<<"--init">>)>>
          [] cmd.action = "Cleanup" -> <<(<<"--cleanup">>)>>
          [] OTHER ->
                <<(<<"--run">>)>>
                \o LimitArgs(cmd.limits, cmd.cgroup)
                \o MountArgs(cmd.mounts, host)
                \o (IF cmd.full_env THEN <<(<<"--full-env">>)>> ELSE <<>>)
                \o EnvArgs(cmd.env)
                \o [i \in 1..Len(cmd.env_inherit) |-> <<"--env=", cmd.env_inherit[i]>>]
                \o OptArg("--chdir=", cmd.working_dir)
                \o OptArg("--meta=", cmd.meta_file)
                \o OptArg("--stdin=", cmd.stdin)
                \o OptArg("--stdout=", cmd.stdout)
                \o OptArg("--stderr=", cmd.stderr)
                \o <<(<<"--">>)>> \o cmd.command)

\* IsolateCommand::build; host is the set of paths that exist on the host
build(cmd, host) ==
    <<cmd.isolate_path, <<"--box-id=", IdText(cmd.box_id)>>>>
    \o (IF cmd.cgroup THEN <<(<<"--cg">>)>> ELSE <<>>)
    \o (CASE cmd.action = "Init" -> <<(<<"--init">>)>>
          [] cmd.action = "Cleanup" -> <<(<<"--cleanup">>)>>
          [] OTHER ->
                <<(<<"--run">>)>>
                \o LimitArgs(cmd.limits, cmd.cgroup)
                \o MountArgs(cmd.mounts, host)
                \o (IF cmd.full_env THEN <<(<<"--full-env">>)>> ELSE <<>>)
                \o EnvArgs(cmd.env)
                \o [i \in 1..Len(cmd.env_inherit) |-> <<"--env=", cmd.env_inherit[i]>>]
                \o OptArg("--meta=", cmd.meta_file)
                \o OptArg("--stdin=", cmd.stdin)
                \o OptArg("--stdout=", cmd.stdout)
                \o OptArg("--stderr=", cmd.stderr)
                \o OptArg("--chdir=", cmd.working_dir)
                \o <<(<<"--">>)>> \o cmd.command)

\* the supervisor's own options: the arguments before the "--" separator
Options(args) ==
    LET Before(seps) ==
            {args[i] : i \in {i \in 1..Len(args) : \A j \in seps : i < j}}
    IN  Before({i \in 1..Len(args) : args[i] = <<"--">>})

\* the supervisor is invoked with the option flag
HasFlag(args, flag) == <<flag>> \in Options(args)

\* the value an option set holds for --<flag>=
OptValue(opts, flag) ==
    LET Pick(hits) == IF hits = {} THEN None ELSE Some(Tail(CHOOSE a \in hits : TRUE))
    IN  Pick({a \in opts : Len(a) > 0 /\ a[1] = flag})

\* the value the supervisor is given for --<flag>=
FlagValue(args, flag) == OptValue(Options(args), flag)

(***************************************************************************)
(* The languages of the configuration.                                      *)
(***************************************************************************)
\* Language::DEFAULT_SANDBOX_PATH
DEFAULT_SANDBOX_PATH == <<"/", "usr", "/", "bin", ":", "/", "bin">>

\* a compiled language
Cpp ==
    [name |-> "C++ 17 (GCC)", extension |-> <<"cpp">>,
     compile |-> Some([command |-> << <<"g++">>, <<"-std=c++17">>, <<"-O2">>,
                                      <<"{source}">>, <<"-o">>, <<"{output}">> >>,
                       source_name |-> <<"main", ".", "cpp">>,
                       output_name |-> <<"main">>,
                       env |-> <<>>, limits |-> None]),
     run |-> [command |-> << <<".", "/", "{binary}">> >>,
              env |-> <<>>, mounts |-> <<>>, path |-> DEFAULT_SANDBOX_PATH,
              limits |-> None]]

\* an interpreted language
Python3 ==
    [name |-> "Python", extension |-> <<"py">>,
     compile |-> None,
     run |-> [command |-> << <<"python3">>, <<"{source}">> >>,
              env |-> <<>>, mounts |-> <<>>, path |-> DEFAULT_SANDBOX_PATH,
              limits |-> None]]

Languages == {Cpp, Python3}

(***************************************************************************)
(* State.                                                                   *)
(***************************************************************************)
VARIABLES
    overflow_checks, \* build profile: integer overflow panics (debug) or wraps
    start_id,        \* BoxPool.start_id
    count,           \* BoxPool.count
    pool_cgroup,     \* BoxPool.cgroup
    next_id,         \* BoxPool.next_id (AtomicU32)
    permits,         \* BoxPool.semaphore: permits available
    waiters,         \* BoxPool.semaphore: acquisitions queued for a permit
    pc,              \* where each caller task is
    pending,         \* the acquisition or init a task is running
    box,             \* the IsolateBox a task owns
    detached,        \* best-effort cleanup threads spawned by Drop, not yet run
    acquired,        \* history: what each acquisition passed to Init, in order
    last,            \* history: the last operation, its result and its supervisor call
    config_cgroup,   \* Runner.config.cgroup
    fs,              \* the host's files under the box directories: path -> content
    calls,           \* history: number of calls the owner of a single box has made
    arg,             \* the file name the path operations are called with
    default_limits,  \* Runner.config.default_limits
    sandbox_mounts,  \* Runner.config.sandbox_mounts
    languages,       \* Runner.config.languages
    host_dirs,       \* the mount sources that exist on the host
    user_limits,     \* the limits the caller passes to the Runner
    stream,          \* an InteractiveEventStream: its task, its session, the child
    events,          \* history: the events the stream's task has sent
    session,         \* an InteractiveSession, its child and its caller
    builder,         \* an IsolateCommand under construction
    argv,            \* the argument vector the last build returned
    parser,          \* a meta file's text and what parsing it returned
    cgroup_fs        \* the host's cgroup hierarchy and the caller preparing it

vars == <<overflow_checks, start_id, count, pool_cgroup, next_id, permits,
          waiters, pc, pending, box, detached, acquired, last,
          config_cgroup, fs, calls, arg, default_limits, sandbox_mounts,
          languages, host_dirs, user_limits, stream, events, session, builder, argv,
          parser, cgroup_fs>>

\* what no operation changes
fixed == <<default_limits, sandbox_mounts, languages, host_dirs, user_limits>>

\* the event stream, the session and the command builder, which the pool,
\* the boxes and the Runner leave alone
streamVars == <<stream, events, session, builder, argv, parser, cgroup_fs>>

NoStream == [active |-> FALSE]

NoSession == [active |-> FALSE]

NoBuilder == [active |-> FALSE]

NoParser == [active |-> FALSE]

NoCgroups == [active |-> FALSE]

poolConst == <<overflow_checks, start_id, count, pool_cgroup, config_cgroup, calls, arg,
               fixed, streamVars>>

NoBox == [exists |-> FALSE]
NoPending == [active |-> FALSE]
NoCall == <<>>

IsolatePath == <<"isolate">>

\* ids the pool starts at: the smallest and the two largest u32
StartIds == {U32Of(0), WrappingSub(U32Max, U32Of(1)), U32Max}

EventOut(t, op, ret, call, out) ==
    [task |-> t, op |-> op, ret |-> ret, call |-> call, out |-> out]

\* what an operation returned besides its kind: an ExecutionResult, a path,
\* whether a file exists, and (history) whether the supervisor wrote a meta
\* file during the call; for compile_and_run also the CompileResult, the
\* error its failing step returned and (history) the compile step's call;
\* for the Runner's operations (history) the name of the language
NoOut ==
    [result |-> None, success |-> FALSE, output |-> <<>>, message |-> None,
     path |-> None, found |-> FALSE, content |-> None, wrote_meta |-> FALSE,
     compile_result |-> None, compile_call |-> <<>>, error |-> "", lang |-> ""]

Event(t, op, ret, call) == EventOut(t, op, ret, call, NoOut)

(***************************************************************************)
(* Paths and the host's files.                                              *)
(***************************************************************************)
\* str.contains("..")
ContainsDotDot(name) ==
    \E i \in 1..(Len(name) - 1) : name[i] = "." /\ name[i + 1] = "."

\* str.starts_with('/')
StartsWithSlash(name) == Len(name) > 0 /\ name[1] = "/"

\* PathBuf::join
Join(base, p) ==
    IF StartsWithSlash(p) THEN p
    ELSE IF Len(base) > 0 /\ base[Len(base)] /= "/" THEN base \o <<"/">> \o p
    ELSE base \o p

IsPrefix(p, q) == Len(p) <= Len(q) /\ SubSeq(q, 1, Len(p)) = p

\* the box directory the supervisor allocates for a box id (Init's stdout)
BoxDir(id) == <<"/", "var", "/", "isolate", "/", IdText(id)>>

\* the file system without the tree under root
RemoveTree(f, root) ==
    [q \in {q \in DOMAIN f : ~IsPrefix(root, q)} |-> f[q]]

\* the file system with content at path
PutFile(f, path, content) ==
    [q \in DOMAIN f \cup {path} |-> IF q = path THEN content ELSE f[q]]

\* Path::exists / fs::metadata(path).is_ok(): a file, or a directory that
\* holds one
PathExists(f, path) ==
    \/ path \in DOMAIN f
    \/ \E q \in DOMAIN f : IsPrefix(path \o <<"/">>, q)

NoFiles == [q \in {} |-> None]

\* BoxPool::new and a fresh set of caller tasks
Init ==
    /\ overflow_checks \in BOOLEAN
    /\ start_id \in StartIds
    /\ count \in 0..MaxCount
    /\ pool_cgroup \in BOOLEAN
    /\ next_id = start_id
    /\ permits = count
    /\ waiters = <<>>
    /\ pc = [t \in Tasks |-> "idle"]
    /\ pending = [t \in Tasks |-> NoPending]
    /\ box = [t \in Tasks |-> NoBox]
    /\ detached = EmptyBag
    /\ acquired = <<>>
    /\ last = Event(0, "new", "Ok", NoCall)
    /\ config_cgroup = pool_cgroup
    /\ default_limits = DefaultLimits
    /\ sandbox_mounts = <<>>
    /\ languages = Languages
    /\ host_dirs = {}
    /\ user_limits = None
    /\ stream = NoStream
    /\ events = <<>>
    /\ session = NoSession
    /\ builder = NoBuilder
    /\ argv = <<>>
    /\ parser = NoParser
    /\ cgroup_fs = NoCgroups
    /\ fs = NoFiles
    /\ calls = 0
    /\ arg = <<>>

(***************************************************************************)
(* The pool's semaphore (tokio::sync::Semaphore, FIFO-fair).                *)
(***************************************************************************)
\* Dropping an OwnedSemaphorePermit: the permit goes to the longest-waiting
\* acquisition if there is one, else back to the semaphore.  pcNew is pc as
\* the releasing step leaves it.
ReleasePermit(pcNew) ==
    IF waiters = <<>>
    THEN /\ permits' = permits + 1
         /\ waiters' = waiters
         /\ pc' = pcNew
    ELSE /\ permits' = permits
         /\ waiters' = Tail(waiters)
         /\ pc' = [pcNew EXCEPT ![Head(waiters)] = "permit"]

\* BoxPool::available
available == permits

\* acquisitions begun so far
Started == Len(acquired) + Cardinality({t \in Tasks : pc[t] \in {"waiting", "permit"}})

(***************************************************************************)
(* BoxPool::acquire                                                         *)
(***************************************************************************)
\* A mutant of AcquireCall: the acquisition goes on without a permit when
\* none is free.
AcquireCallWithoutPermit(t) ==
    /\ pc[t] = "idle"
    /\ Started < MaxAcquire
    /\ permits' = (IF permits > 0 THEN permits - 1 ELSE permits)
    /\ pc' = [pc EXCEPT ![t] = "permit"]
    /\ waiters' = waiters
    /\ last' = Event(t, "acquire", "Admitted", NoCall)
    /\ UNCHANGED <<poolConst, next_id, pending, box, detached, acquired, fs>>

\* A mutant of AcquireCall: try_acquire_owned in place of acquire_owned, so
\* that an exhausted pool fails the call with PoolExhausted.
AcquireCallFailsWhenExhausted(t) ==
    /\ pc[t] = "idle"
    /\ Started < MaxAcquire
    /\ IF permits > 0
       THEN /\ permits' = permits - 1
            /\ pc' = [pc EXCEPT ![t] = "permit"]
            /\ last' = Event(t, "acquire", "Admitted", NoCall)
       ELSE /\ permits' = permits
            /\ pc' = pc
            /\ last' = Event(t, "acquire", "PoolExhausted", NoCall)
    /\ UNCHANGED <<poolConst, next_id, waiters, pending, box, detached, acquired, fs>>

\* acquire_owned().await: take a permit, or queue for one
AcquireCall(t) ==
    /\ pc[t] = "idle"
    /\ Started < MaxAcquire
    /\ IF permits > 0
       THEN /\ permits' = permits - 1
            /\ pc' = [pc EXCEPT ![t] = "permit"]
            /\ waiters' = waiters
            /\ last' = Event(t, "acquire", "Admitted", NoCall)
       ELSE /\ permits' = permits
            /\ pc' = [pc EXCEPT ![t] = "waiting"]
            /\ waiters' = Append(waiters, t)
            /\ last' = Event(t, "acquire", "Suspended", NoCall)
    /\ UNCHANGED <<poolConst, next_id, pending, box, detached, acquired, fs>>

\* the id computed from the counter value raw:
\* start_id + (raw - start_id) % count
IdUnderflows(raw) == U32Lt(raw, start_id)

IdRem(raw) == RemSmall(WrappingSub(raw, start_id), count)

IdOverflows(raw) == AddOverflows(start_id, U32Of(IdRem(raw)))

IdOf(raw) == WrappingAdd(start_id, U32Of(IdRem(raw)))

\* next_id.fetch_add(1) and the id computation, with the permit held
NextId(t) ==
    /\ pc[t] = "permit"
    /\ next_id' = WrappingAdd(next_id, U32Of(1))
    /\ IF overflow_checks /\ (IdUnderflows(next_id) \/ IdOverflows(next_id))
       THEN \* arithmetic overflow panic: unwinding drops the permit
            /\ acquired' = Append(acquired, [panic |-> TRUE, id |-> next_id])
            /\ ReleasePermit([pc EXCEPT ![t] = "panicked"])
            /\ last' = Event(t, "acquire", "Panic", NoCall)
            /\ UNCHANGED pending
       ELSE /\ acquired' = Append(acquired, [panic |-> FALSE, id |-> IdOf(next_id)])
            /\ pending' = [pending EXCEPT ![t] =
                    [active |-> TRUE, id |-> IdOf(next_id),
                     cgroup |-> pool_cgroup, permit |-> TRUE]]
            /\ pc' = [pc EXCEPT ![t] = "init"]
            /\ last' = Event(t, "acquire", "IdTaken", NoCall)
            /\ UNCHANGED <<permits, waiters>>
    /\ UNCHANGED <<poolConst, box, detached, fs>>

(***************************************************************************)
(* IsolateBox                                                               *)
(***************************************************************************)
InitArgs(id, cgroup) ==
    build([NewCommand(IsolatePath, id) EXCEPT !.action = "Init", !.cgroup = cgroup],
          host_dirs)

CleanupArgs(id, cgroup) ==
    build([NewCommand(IsolatePath, id) EXCEPT !.action = "Cleanup", !.cgroup = cgroup],
          host_dirs)

SupervisorOutcomes == {"ok", "failed", "spawn_failed"}

\* A mutant of InitBox: a failed Init keeps the permit of its acquisition.
InitBoxKeepsPermitOnFailure(t) ==
    /\ pc[t] = "init"
    /\ \E outcome \in SupervisorOutcomes \cup {"no_box_path"} :
        LET p == pending[t]
            args == InitArgs(p.id, p.cgroup)
        IN  IF outcome = "ok"
            THEN /\ box' = [box EXCEPT ![t] =
                        [exists |-> TRUE, id |-> p.id, box_path |-> BoxDir(p.id),
                         initialized |-> TRUE,
                         cgroup |-> p.cgroup, permit |-> p.permit,
                         init_args |-> args, cleaned |-> 0]]
                 /\ pc' = [pc EXCEPT ![t] = "holding"]
                 /\ last' = Event(t, "init", "Ok", args)
                 /\ fs' = RemoveTree(fs, BoxDir(p.id))
                 /\ UNCHANGED <<permits, waiters>>
            ELSE /\ box' = box
                 /\ fs' = fs
                 /\ last' = Event(t, "init",
                                  IF outcome = "spawn_failed" THEN "SpawnFailed"
                                  ELSE "InitFailed", args)
                 /\ pc' = [pc EXCEPT ![t] = "idle"]
                 /\ UNCHANGED <<permits, waiters>>
    /\ pending' = [pending EXCEPT ![t] = NoPending]
    /\ UNCHANGED <<poolConst, next_id, detached, acquired>>

\* IsolateBox::init, and the tail of acquire (with_permit) when it was
\* called from the pool
InitBox(t) ==
    /\ pc[t] = "init"
    /\ \E outcome \in SupervisorOutcomes \cup {"no_box_path"} :
        LET p == pending[t]
            args == InitArgs(p.id, p.cgroup)
        IN  IF outcome = "ok"
            THEN /\ box' = [box EXCEPT ![t] =
                        [exists |-> TRUE, id |-> p.id, box_path |-> BoxDir(p.id),
                         initialized |-> TRUE,
                         cgroup |-> p.cgroup, permit |-> p.permit,
                         init_args |-> args, cleaned |-> 0]]
                 /\ pc' = [pc EXCEPT ![t] = "holding"]
                 /\ last' = Event(t, "init", "Ok", args)
                 /\ fs' = RemoveTree(fs, BoxDir(p.id))
                 /\ UNCHANGED <<permits, waiters>>
            ELSE /\ box' = box
                 /\ fs' = fs
                 /\ last' = Event(t, "init",
                                  IF outcome = "spawn_failed" THEN "SpawnFailed"
                                  ELSE "InitFailed", args)
                 /\ IF p.permit
                    THEN ReleasePermit([pc EXCEPT ![t] = "idle"])
                    ELSE /\ pc' = [pc EXCEPT ![t] = "idle"]
                         /\ UNCHANGED <<permits, waiters>>
    /\ pending' = [pending EXCEPT ![t] = NoPending]
    /\ UNCHANGED <<poolConst, next_id, detached, acquired>>

\* A mutant of Cleanup: the early return on an uninitialized box is missing.
CleanupWithoutGuard(t) ==
    /\ pc[t] = "holding"
    /\ \E outcome \in SupervisorOutcomes :
        LET args == CleanupArgs(box[t].id, box[t].cgroup)
        IN  IF outcome = "ok"
            THEN /\ box' = [box EXCEPT ![t].initialized = FALSE,
                                       ![t].cleaned = @ + 1]
                 /\ last' = Event(t, "cleanup", "Ok", args)
                 /\ fs' = RemoveTree(fs, BoxDir(box[t].id))
            ELSE /\ box' = box
                 /\ fs' = fs
                 /\ last' = Event(t, "cleanup",
                                  IF outcome = "spawn_failed" THEN "SpawnFailed"
                                  ELSE "CleanupFailed", args)
    /\ UNCHANGED <<poolConst, next_id, permits, waiters, pc, pending, detached, acquired>>

\* A mutant of Cleanup: a failed supervisor call clears initialized too.
CleanupClearsFlagOnFailure(t) ==
    /\ pc[t] = "holding"
    /\ IF ~box[t].initialized
       THEN /\ last' = Event(t, "cleanup", "Ok", NoCall)
            /\ box' = box
            /\ fs' = fs
       ELSE \E outcome \in SupervisorOutcomes :
            LET args == CleanupArgs(box[t].id, box[t].cgroup)
            IN  IF outcome = "ok"
                THEN /\ box' = [box EXCEPT ![t].initialized = FALSE,
                                           ![t].cleaned = @ + 1]
                     /\ last' = Event(t, "cleanup", "Ok", args)
                     /\ fs' = RemoveTree(fs, BoxDir(box[t].id))
                ELSE /\ box' = [box EXCEPT ![t].initialized = FALSE]
                     /\ fs' = fs
                     /\ last' = Event(t, "cleanup",
                                      IF outcome = "spawn_failed" THEN "SpawnFailed"
                                      ELSE "CleanupFailed", args)
    /\ UNCHANGED <<poolConst, next_id, permits, waiters, pc, pending, detached, acquired>>

\* IsolateBox::cleanup
Cleanup(t) ==
    /\ pc[t] = "holding"
    /\ IF ~box[t].initialized
       THEN /\ last' = Event(t, "cleanup", "Ok", NoCall)
            /\ box' = box
            /\ fs' = fs
       ELSE \E outcome \in SupervisorOutcomes :
            LET args == CleanupArgs(box[t].id, box[t].cgroup)
            IN  IF outcome = "ok"
                THEN /\ box' = [box EXCEPT ![t].initialized = FALSE,
                                           ![t].cleaned = @ + 1]
                     /\ last' = Event(t, "cleanup", "Ok", args)
                     /\ fs' = RemoveTree(fs, BoxDir(box[t].id))
                ELSE /\ box' = box
                     /\ fs' = fs
                     /\ last' = Event(t, "cleanup",
                                      IF outcome = "spawn_failed" THEN "SpawnFailed"
                                      ELSE "CleanupFailed", args)
    /\ UNCHANGED <<poolConst, next_id, permits, waiters, pc, pending, detached, acquired>>

\* A mutant of DropBox: the permit is leaked, not released.
DropBoxLeaksPermit(t) ==
    /\ pc[t] = "holding"
    /\ IF box[t].initialized
       THEN /\ detached' = detached (+) SetToBag({[id |-> box[t].id, cgroup |-> box[t].cgroup]})
            /\ last' = Event(t, "drop", "Warned", NoCall)
       ELSE /\ detached' = detached
            /\ last' = Event(t, "drop", "Silent", NoCall)
    /\ box' = [box EXCEPT ![t] = NoBox]
    /\ pc' = [pc EXCEPT ![t] = "idle"]
    /\ UNCHANGED <<poolConst, next_id, permits, waiters, pending, acquired, fs>>

\* A mutant of DropBox: the best-effort cleanup is spawned whatever the
\* initialized flag says.
DropBoxAlwaysCleans(t) ==
    /\ pc[t] = "holding"
    /\ detached' = detached (+) SetToBag({[id |-> box[t].id, cgroup |-> box[t].cgroup]})
    /\ last' = Event(t, "drop", "Warned", NoCall)
    /\ box' = [box EXCEPT ![t] = NoBox]
    /\ IF box[t].permit
       THEN ReleasePermit([pc EXCEPT ![t] = "idle"])
       ELSE /\ pc' = [pc EXCEPT ![t] = "idle"]
            /\ UNCHANGED <<permits, waiters>>
    /\ UNCHANGED <<poolConst, next_id, pending, acquired, fs>>

\* impl Drop for IsolateBox, then the drop of the _permit field
DropBox(t) ==
    /\ pc[t] = "holding"
    /\ IF box[t].initialized
       THEN /\ detached' = detached (+) SetToBag({[id |-> box[t].id, cgroup |-> box[t].cgroup]})
            /\ last' = Event(t, "drop", "Warned", NoCall)
       ELSE /\ detached' = detached
            /\ last' = Event(t, "drop", "Silent", NoCall)
    /\ box' = [box EXCEPT ![t] = NoBox]
    /\ IF box[t].permit
       THEN ReleasePermit([pc EXCEPT ![t] = "idle"])
       ELSE /\ pc' = [pc EXCEPT ![t] = "idle"]
            /\ UNCHANGED <<permits, waiters>>
    /\ UNCHANGED <<poolConst, next_id, pending, acquired, fs>>

\* the thread spawned by Drop runs the supervisor's Cleanup
DetachedCleanup ==
    /\ \E w \in BagToSet(detached) : \E outcome \in SupervisorOutcomes :
        /\ detached' = detached (-) SetToBag({w})
        /\ last' = Event(0, "detached_cleanup", outcome, CleanupArgs(w.id, w.cgroup))
        /\ fs' = (IF outcome = "ok" THEN RemoveTree(fs, BoxDir(w.id)) ELSE fs)
    /\ UNCHANGED <<poolConst, next_id, permits, waiters, pc, pending, box, acquired>>

(***************************************************************************)
(* The file operations of a box.  A Result is [ok, err, val].               *)
(***************************************************************************)
Ok(v) == [ok |-> TRUE, err |-> "", val |-> v]

Err(e) == [ok |-> FALSE, err |-> e, val |-> <<>>]

\* A mutant of file_path: only a name that starts with ".." or "/" is
\* rejected.
file_pathChecksPrefixOnly(b, name) ==
    IF (Len(name) >= 2 /\ name[1] = "." /\ name[2] = ".") \/ StartsWithSlash(name)
    THEN Err("InvalidPath")
    ELSE Ok(Join(Join(b.box_path, <<"box">>), name))

\* IsolateBox::file_path
file_path(b, name) ==
    IF ContainsDotDot(name) \/ StartsWithSlash(name)
    THEN Err("InvalidPath")
    ELSE Ok(Join(Join(b.box_path, <<"box">>), name))

\* IsolateBox::sandbox_path
sandbox_path(b, name) ==
    IF ContainsDotDot(name) \/ StartsWithSlash(name)
    THEN Err("InvalidPath")
    ELSE Ok(Join(<<"/", "box">>, name))

\* the path names a directory: it ends in "/" or in a "." component
IsDirName(path) ==
    /\ Len(path) > 0
    /\ \/ path[Len(path)] = "/"
       \/ /\ path[Len(path)] = "."
          /\ (Len(path) = 1 \/ path[Len(path) - 1] = "/")

\* fs::create_dir_all(parent) and fs::write(path) cannot succeed: the path is
\* a directory, or a file stands where a parent directory is needed
WriteBlocked(f, path) ==
    \/ IsDirName(path)
    \/ \E q \in DOMAIN f : IsPrefix(path \o <<"/">>, q)
    \/ \E q \in DOMAIN f : IsPrefix(q \o <<"/">>, path)

\* IsolateBox::write_file: the new file system and the result; io_ok is
\* whether the host lets the write through
write_file(f, b, name, content, io_ok) ==
    LET Write(path) ==
            IF ~path.ok THEN [fs |-> f, res |-> Err(path.err)]
            ELSE IF ~io_ok \/ WriteBlocked(f, path.val)
            THEN [fs |-> f, res |-> Err("Io")]
            ELSE [fs |-> PutFile(f, path.val, content), res |-> Ok(<<>>)]
    IN  Write(file_path(b, name))

\* IsolateBox::read_file
read_file(f, b, name) ==
    LET Read(path) ==
            IF ~path.ok THEN Err(path.err)
            ELSE IF path.val \in DOMAIN f THEN Ok(f[path.val])
            ELSE Err("Io")
    IN  Read(file_path(b, name))

\* IsolateBox::file_exists
file_exists(f, b, name) ==
    LET Exists(path) ==
            IF ~path.ok THEN Err(path.err) ELSE Ok(PathExists(f, path.val))
    IN  Exists(file_path(b, name))

(***************************************************************************)
(* The meta file.  A file's content is a sequence of lines; a line is a     *)
(* text.                                                                    *)
(***************************************************************************)
\* line.split_once(':'): the position of the first colon, 0 if there is none
ColonAt(line) ==
    LET First(at) == IF at = {} THEN 0 ELSE CHOOSE i \in at : \A j \in at : i <= j
    IN  First({i \in 1..Len(line) : line[i] = ":"})

\* the characters str::trim removes
Whitespace == {" ", "\t", "\r", "\n"}

\* A mutant of trim: only leading whitespace is removed.
RECURSIVE trimStart(_)
trimStart(s) ==
    IF s = <<>> THEN s
    ELSE IF s[1] \in Whitespace THEN trimStart(Tail(s))
    ELSE s

\* str::trim
RECURSIVE trim(_)
trim(s) ==
    IF s = <<>> THEN s
    ELSE IF s[1] \in Whitespace THEN trim(Tail(s))
    ELSE IF s[Len(s)] \in Whitespace THEN trim(SubSeq(s, 1, Len(s) - 1))
    ELSE s

\* str::lines: the text split at each "\n", a "\r" before it removed; the
\* final line ending is optional
RECURSIVE lines(_)
lines(text) ==
    LET First(at) == IF at = {} THEN 0 ELSE CHOOSE i \in at : \A j \in at : i <= j
        Line(l) == IF l /= <<>> /\ l[Len(l)] = "\r" THEN SubSeq(l, 1, Len(l) - 1) ELSE l
        Split(at) ==
            IF at = 0 THEN <<text>>
            ELSE <<Line(SubSeq(text, 1, at - 1))>> \o lines(SubSeq(text, at + 1, Len(text)))
    IN  IF text = <<>> THEN <<>> ELSE Split(First({i \in 1..Len(text) : text[i] = "\n"}))

\* MetaFile::parse on the lines of the content: the entries, a later line
\* replacing an earlier one
parse(content) ==
    LET Entry(line, at) ==
            [good |-> at > 0 /\ trim(SubSeq(line, 1, at - 1)) /= <<>>,
             key |-> trim(SubSeq(line, 1, at - 1)),
             value |-> trim(SubSeq(line, at + 1, Len(line)))]
        Entries(es) ==
            LET good == {i \in 1..Len(es) : es[i].good}
            IN  [k \in {es[i].key : i \in good} |->
                    es[CHOOSE i \in good :
                          /\ es[i].key = k
                          /\ \A j \in good : es[j].key = k => j <= i].value]
    IN  Entries([i \in 1..Len(content) |->
                    Entry(trim(content[i]), ColonAt(trim(content[i])))])

\* MetaParseError
MetaParseError(line_number, line, message) ==
    [line_number |-> line_number, line |-> line, message |-> message]

\* A mutant of try_parse: the line number counts the non-blank lines only.
RECURSIVE try_parseSkippingBlanks(_, _, _)
try_parseSkippingBlanks(content, idx, entries) ==
    IF content = <<>> THEN Ok(entries)
    ELSE LET line == trim(Head(content))
             at == ColonAt(line)
             key == trim(SubSeq(line, 1, at - 1))
             value == trim(SubSeq(line, at + 1, Len(line)))
         IN  IF line = <<>> THEN try_parseSkippingBlanks(Tail(content), idx, entries)
             ELSE IF at = 0
             THEN Err(MetaParseError(idx + 1, Head(content), "missing colon separator"))
             ELSE IF key = <<>>
             THEN Err(MetaParseError(idx + 1, Head(content), "empty key before colon"))
             ELSE try_parseSkippingBlanks(Tail(content), idx + 1,
                     [k \in DOMAIN entries \cup {key} |->
                         IF k = key THEN value ELSE entries[k]])

\* MetaFile::try_parse on the lines of the content that follow the first idx
\* lines, entries being what those inserted
RECURSIVE try_parse(_, _, _)
try_parse(content, idx, entries) ==
    IF content = <<>> THEN Ok(entries)
    ELSE LET line == trim(Head(content))
             at == ColonAt(line)
             key == trim(SubSeq(line, 1, at - 1))
             value == trim(SubSeq(line, at + 1, Len(line)))
         IN  IF line = <<>> THEN try_parse(Tail(content), idx + 1, entries)
             ELSE IF at = 0
             THEN Err(MetaParseError(idx + 1, Head(content), "missing colon separator"))
             ELSE IF key = <<>>
             THEN Err(MetaParseError(idx + 1, Head(content), "empty key before colon"))
             ELSE try_parse(Tail(content), idx + 1,
                     [k \in DOMAIN entries \cup {key} |->
                         IF k = key THEN value ELSE entries[k]])

\* MetaFile::get
get(meta, key) == IF key \in DOMAIN meta THEN Some(meta[key]) ELSE None

\* str::parse::<i32> on the exit codes the supervisor reports here
DecimalValue == ("0" :> 0) @@ ("1" :> 1)

\* MetaFile::get_i32
get_i32(meta, key) ==
    LET Parsed(v) ==
            IF v /= None /\ Len(v[1]) = 1 /\ v[1][1] \in DOMAIN DecimalValue
            THEN Some(DecimalValue[v[1][1]])
            ELSE None
    IN  Parsed(get(meta, key))

\* ExecutionStatus::from_isolate_status
from_isolate_status(s) ==
    CASE s = <<"OK">> -> "Ok"
      [] s = <<"RE">> -> "RuntimeError"
      [] s = <<"TO">> -> "TimeLimitExceeded"
      [] s = <<"SG">> -> "Signaled"
      [] s = <<"XX">> -> "InternalError"
      [] OTHER -> "InternalError"

\* MetaFile::status
status(meta) ==
    LET Status(v) == IF v = None THEN "Ok" ELSE from_isolate_status(v[1])
    IN  Status(get(meta, <<"status">>))

\* MetaFile::exit_code
exit_code(meta) == get_i32(meta, <<"exitcode">>)

\* str::to_lowercase on the pieces a message is made of here
LowerCase ==
    ("Time limit exceeded" :> "time limit exceeded") @@ ("Wall" :> "wall")
        @@ ("Out of memory" :> "out of memory") @@ ("Output" :> "output")

to_lowercase(msg) ==
    [i \in 1..Len(msg) |-> IF msg[i] \in DOMAIN LowerCase THEN LowerCase[msg[i]] ELSE msg[i]]

\* which of the texts from_message looks for occur in a lower-case piece; no
\* two pieces put together make another occurrence
Occurrences ==
    ("time limit exceeded" :> {"time limit"}) @@ ("time limit" :> {"time limit"})
        @@ ("(wall clock)" :> {"wall"}) @@ ("wall" :> {"wall"})
        @@ ("out of memory" :> {"memory", "out of memory"}) @@ ("memory" :> {"memory"})
        @@ ("output" :> {"output"})

\* str::contains
contains(msg, pat) ==
    \E i \in 1..Len(msg) : msg[i] \in DOMAIN Occurrences /\ pat \in Occurrences[msg[i]]

\* A mutant of from_message: memory is looked for before the time limit.
from_messageMemoryFirst(message) ==
    IF message = None THEN "NotExceeded"
    ELSE LET msg_lower == to_lowercase(message[1])
         IN  IF contains(msg_lower, "memory") \/ contains(msg_lower, "out of memory")
             THEN "Memory"
             ELSE IF contains(msg_lower, "time limit")
             THEN IF contains(msg_lower, "wall") THEN "WallTime" ELSE "Time"
             ELSE IF contains(msg_lower, "output") THEN "Output"
             ELSE "NotExceeded"

\* LimitExceeded::from_message
from_message(message) ==
    IF message = None THEN "NotExceeded"
    ELSE LET msg_lower == to_lowercase(message[1])
         IN  IF contains(msg_lower, "time limit")
             THEN IF contains(msg_lower, "wall") THEN "WallTime" ELSE "Time"
             ELSE IF contains(msg_lower, "memory") \/ contains(msg_lower, "out of memory")
             THEN "Memory"
             ELSE IF contains(msg_lower, "output") THEN "Output"
             ELSE "NotExceeded"

\* LimitExceeded::is_exceeded
is_exceeded(limit) == limit /= "NotExceeded"

\* MetaFile::limit_exceeded
limit_exceeded(meta) ==
    LET Fallback(from_msg) ==
            IF is_exceeded(from_msg) THEN from_msg
            ELSE IF status(meta) = "TimeLimitExceeded" THEN "Time"
            ELSE "NotExceeded"
    IN  Fallback(from_message(get(meta, <<"message">>)))

\* MetaFile::to_execution_result
to_execution_result(meta) ==
    [status |-> status(meta), limit_exceeded |-> limit_exceeded(meta),
     exit_code |-> exit_code(meta),
     message |-> get(meta, <<"message">>), stdout |-> None, stderr |-> None]

\* A mutant of is_success: the exit code is not looked at.
execution_is_successByStatus(result) == result.status = "Ok"

\* ExecutionResult::is_success
execution_is_success(result) == result.status = "Ok" /\ result.exit_code = Some(0)

(***************************************************************************)
(* The supervisor, as the library sees it.                                  *)
(***************************************************************************)
\* what the supervisor can write to the meta file of a run
MetaExit0 == << <<"exitcode", ":", "0">> >>

MetaExit1 == << <<"exitcode", ":", "1">>, <<"status", ":", "RE">> >>

MetaInternal == << <<"status", ":", "XX">>, <<"message", ":", "internal error">> >>

\* the program was killed by a signal
MetaSignal == << <<"exitsig", ":", "11">>, <<"status", ":", "SG">> >>

\* the program hit its time limit
MetaTimeout == << <<"status", ":", "TO">>, <<"message", ":", "Time limit exceeded">> >>

MetaContents == {MetaExit0, MetaExit1, MetaInternal, MetaSignal, MetaTimeout}

\* a run either cannot be spawned, or returns having written no meta file,
\* or returns having written one
RunOutcomes == {<<"spawn_failed">>, <<"no_meta">>} \cup {<<"meta", m>> : m \in MetaContents}

\* the host path of a path inside the sandbox of the box with the id
HostOf(id, sandboxPath) ==
    <<"/", "var", "/", "isolate", "/">> \o id \o sandboxPath

\* the program's arguments: what follows the "--" separator
Program(args) ==
    LET After(seps) ==
            IF seps = {} THEN <<>>
            ELSE SubSeq(args, (CHOOSE i \in seps : \A j \in seps : i <= j) + 1, Len(args))
    IN  After({i \in 1..Len(args) : args[i] = <<"--">>})

\* the files a program that exits with 0 leaves in its working directory:
\* a compiler writes the file its -o option names
ProgramOutputs(prog, dir) ==
    {Join(dir, prog[i + 1]) : i \in {i \in 1..(Len(prog) - 1) : prog[i] = <<"-o">>}}

ProgramStdout == << <<"out">> >>

ProgramStderr == << <<"err">> >>

ProgramBinary == << <<"elf">> >>

\* the files a run writes: the meta file, then, when the program ran, its
\* stdout and stderr files, and what the program made when it exited with 0
SupervisorWrites(args, content) ==
    LET OptFile(opt, data) == IF opt = None THEN NoFiles ELSE (opt[1] :> data)
        Writes(opts, code) ==
            LET id == OptValue(opts, "--box-id=")[1]
                dir == OptValue(opts, "--chdir=")
                HostOpt(opt) == IF opt = None THEN None ELSE Some(HostOf(id, opt[1]))
            IN  (IF code = Some(0)
                 THEN [q \in {HostOf(id, p) :
                                p \in ProgramOutputs(Program(args),
                                        IF dir = None THEN <<"/", "box">> ELSE dir[1])}
                         |-> ProgramBinary]
                 ELSE NoFiles)
                @@ (IF code /= None
                    THEN OptFile(HostOpt(OptValue(opts, "--stdout=")), ProgramStdout)
                         @@ OptFile(HostOpt(OptValue(opts, "--stderr=")), ProgramStderr)
                    ELSE NoFiles)
                @@ OptFile(OptValue(opts, "--meta="), content)
    IN  Writes(Options(args), exit_code(parse(content)))

\* the file system after a supervisor run with the given outcome
SupervisorRun(f, args, outcome) ==
    IF outcome[1] /= "meta" THEN f ELSE SupervisorWrites(args, outcome[2]) @@ f

(***************************************************************************)
(* Commands of a language.                                                  *)
(***************************************************************************)
\* Language::source_name
source_name(lang) ==
    IF lang.compile /= None THEN lang.compile[1].source_name
    ELSE <<"main", ".">> \o lang.extension

\* str::replace of the placeholders in one argument
RECURSIVE ExpandArg(_, _, _)
ExpandArg(a, source, binary) ==
    IF a = <<>> THEN <<>>
    ELSE (CASE Head(a) = "{source}" -> source
            [] Head(a) \in {"{output}", "{binary}"} -> binary
            [] OTHER -> <<Head(a)>>)
         \o ExpandArg(Tail(a), source, binary)

\* Language::expand_command
expand_command(command, source, binary) ==
    [i \in 1..Len(command) |-> ExpandArg(command[i], source, binary)]

\* where the host's PATH holds a program
HostBin(name) == <<"/", "usr", "/", "bin", "/">> \o name

\* resolve_command; found is whether the host's PATH holds the program
resolve_command(command, found) ==
    IF command = <<>> THEN Ok(command)
    ELSE IF \E i \in 1..Len(command[1]) : command[1][i] = "/" THEN Ok(command)
    ELSE IF found THEN Ok([command EXCEPT ![1] = HostBin(command[1])])
    ELSE Err("CommandFailed")

\* validate_mounts; host is the set of paths that exist on the host
validate_mounts(mounts, host) ==
    IF \E i \in 1..Len(mounts) : ~mounts[i].optional /\ mounts[i].source \notin host
    THEN Err("MountSourceNotFound")
    ELSE Ok(TRUE)

\* HashMap::insert on the entries of an environment map
EnvInsert(env, key, value) ==
    IF \E i \in 1..Len(env) : env[i].key = key
    THEN [i \in 1..Len(env) |->
            IF env[i].key = key THEN [key |-> key, value |-> value] ELSE env[i]]
    ELSE Append(env, [key |-> key, value |-> value])

\* for (key, value) in entries { command = command.env(key, value) }
RECURSIVE EnvExtend(_, _)
EnvExtend(env, entries) ==
    IF entries = <<>> THEN env
    ELSE EnvExtend(EnvInsert(env, Head(entries).key, Head(entries).value),
                   Tail(entries))

(***************************************************************************)
(* Running the supervisor.  A handler's outcome is the file system it       *)
(* leaves, the kind of result it returns, the supervisor call it made and   *)
(* what it returned.  env holds what the host decides: found (PATH lookup), *)
(* io (which write fails, 0 for none) and sup (the supervisor's run).       *)
(***************************************************************************)
Outcome(f, ret, call, out) == [fs |-> f, ret |-> ret, call |-> call, out |-> out]

SupervisorStderr == <<"supervisor stderr">>

\* run_isolate_command: a Result holding the parsed meta file
run_isolate_command(f, meta_path) ==
    IF PathExists(f, meta_path)
    THEN IF meta_path \in DOMAIN f THEN Ok(parse(f[meta_path])) ELSE Err("Io")
    ELSE Err("CommandFailed")

\* what run_batch and run_with_output share: the stdin file is written, the
\* command gets its meta file and its I/O files, the supervisor runs and the
\* meta file is looked for
RunWithFiles(f, host, b, command, stdin_name, stdout_name, stderr_name, stdin_data, io_ok, sup) ==
    LET wrote == [NoOut EXCEPT !.wrote_meta = (sup[1] = "meta")]
        Loaded(f2, args, meta) ==
            IF ~meta.ok
            THEN Outcome(f2, meta.err, args,
                         [wrote EXCEPT !.message = Some(SupervisorStderr)])
            ELSE Outcome(f2, "Ok", args,
                         [wrote EXCEPT !.result = Some(to_execution_result(meta.val))])
        Returned(f2, args, meta_path) ==
            Loaded(f2, args, run_isolate_command(f2, meta_path))
        Staged(written, args, meta_path) ==
            IF ~written.res.ok THEN Outcome(f, written.res.err, NoCall, NoOut)
            ELSE IF sup[1] = "spawn_failed"
            THEN Outcome(written.fs, "SpawnFailed", args, NoOut)
            ELSE Returned(SupervisorRun(written.fs, args, sup), args, meta_path)
        Configured(meta_path) ==
            Staged(write_file(f, b, stdin_name, stdin_data, io_ok),
                   build([command EXCEPT
                            !.meta_file = Some(meta_path),
                            !.stdin = Some(sandbox_path(b, stdin_name).val),
                            !.stdout = Some(sandbox_path(b, stdout_name).val),
                            !.stderr = Some(sandbox_path(b, stderr_name).val)],
                         host),
                   meta_path)
    IN  Configured(file_path(b, <<"meta", ".", "txt">>).val)

\* the content of the file at the name, if the file exists
ReadBack(f, b, name) ==
    LET Read(path) == IF path \in DOMAIN f THEN Some(f[path]) ELSE None
    IN  Read(file_path(b, name).val)

\* run_batch
run_batch(f, host, b, command, stdin_data, io_ok, sup) ==
    LET WithOutput(r) ==
            IF r.ret /= "Ok" THEN r
            ELSE [r EXCEPT !.out.result =
                    Some([@[1] EXCEPT
                            !.stdout = ReadBack(r.fs, b, <<"stdout", ".", "txt">>),
                            !.stderr = ReadBack(r.fs, b, <<"stderr", ".", "txt">>)])]
    IN  WithOutput(RunWithFiles(f, host, b, command, <<"stdin", ".", "txt">>,
                                <<"stdout", ".", "txt">>, <<"stderr", ".", "txt">>,
                                IF stdin_data = None THEN <<>> ELSE stdin_data[1],
                                io_ok, sup))

\* run_with_output
run_with_output(f, host, b, command, io_ok, sup) ==
    LET Text(opt) == IF opt = None THEN <<>> ELSE opt[1]
        WithOutput(r) ==
            IF r.ret /= "Ok" THEN r
            ELSE [r EXCEPT !.out.output =
                    Text(ReadBack(r.fs, b, <<"compile_stdout", ".", "txt">>))
                    \o Text(ReadBack(r.fs, b, <<"compile_stderr", ".", "txt">>))]
    IN  WithOutput(RunWithFiles(f, host, b, command, <<"compile_stdin", ".", "txt">>,
                                <<"compile_stdout", ".", "txt">>,
                                <<"compile_stderr", ".", "txt">>, <<>>, io_ok, sup))

\* IsolateProcess::spawn
spawn(f, host, b, command, sup) ==
    LET Spawned(args) ==
            IF sup[1] = "spawn_failed" THEN Outcome(f, "SpawnFailed", args, NoOut)
            ELSE Outcome(f, "Ok", args, NoOut)
    IN  Spawned(build([command EXCEPT !.meta_file =
                         Some(file_path(b, <<"interactive_meta", ".", "txt">>).val)],
                     host))

\* the Run command the runner builds: IsolateCommand::new(..).action(Run)
\* .cgroup(..).limits(..).working_dir("/box").env("PATH", ..).mounts(..)
\* .command(..), then one env(..) for every entry of the language's map
RunCommand(b, config, limits, path, mounts, env, run_cmd) ==
    [NewCommand(IsolatePath, b.id) EXCEPT
        !.cgroup = config.cgroup,
        !.limits = limits,
        !.working_dir = Some(<<"/", "box">>),
        !.env = EnvExtend(<<[key |-> "PATH", value |-> path]>>, env),
        !.mounts = mounts,
        !.command = run_cmd]

\* the file a run needs in the box: the binary, or the source
NeededFile(lang) ==
    IF lang.compile /= None THEN lang.compile[1].output_name ELSE source_name(lang)

\* runner::execute that does not look for the binary or the source
executeWithoutPresenceCheck(f, host, b, config, lang, input, limits, env) ==
    LET Lang(base) == IF lang.run.limits /= None
                      THEN with_overrides(base, lang.run.limits[1]) ELSE base
        User(base) == IF limits /= None THEN with_overrides(base, limits[1]) ELSE base
        Run(effective_limits, run_cmd, mounts) ==
            IF ~run_cmd.ok THEN Outcome(f, run_cmd.err, NoCall, NoOut)
            ELSE IF ~mounts.ok THEN Outcome(f, mounts.err, NoCall, NoOut)
            ELSE run_batch(f, host, b,
                           RunCommand(b, config, effective_limits, lang.run.path,
                                      config.sandbox_mounts \o lang.run.mounts,
                                      lang.run.env, run_cmd.val),
                           input, env.io /= 2, env.sup)
    IN  Run(User(Lang(config.default_limits)),
            resolve_command(
                expand_command(lang.run.command, source_name(lang), NeededFile(lang)),
                env.found),
            validate_mounts(lang.run.mounts, host))

\* runner::execute whose language limits override the user's
executeLanguageOverUser(f, host, b, config, lang, input, limits, env) ==
    LET Lang(base) == IF lang.run.limits /= None
                      THEN with_overrides(base, lang.run.limits[1]) ELSE base
        User(base) == IF limits /= None THEN with_overrides(base, limits[1]) ELSE base
        Run(effective_limits, present, run_cmd, mounts) ==
            IF ~present.ok THEN Outcome(f, present.err, NoCall, NoOut)
            ELSE IF ~present.val THEN Outcome(f, "NotStarted", NoCall, NoOut)
            ELSE IF ~run_cmd.ok THEN Outcome(f, run_cmd.err, NoCall, NoOut)
            ELSE IF ~mounts.ok THEN Outcome(f, mounts.err, NoCall, NoOut)
            ELSE run_batch(f, host, b,
                           RunCommand(b, config, effective_limits, lang.run.path,
                                      config.sandbox_mounts \o lang.run.mounts,
                                      lang.run.env, run_cmd.val),
                           input, env.io /= 2, env.sup)
    IN  Run(Lang(User(config.default_limits)),
            file_exists(f, b, NeededFile(lang)),
            resolve_command(
                expand_command(lang.run.command, source_name(lang), NeededFile(lang)),
                env.found),
            validate_mounts(lang.run.mounts, host))

\* runner::execute
execute(f, host, b, config, lang, input, limits, env) ==
    LET Lang(base) == IF lang.run.limits /= None
                      THEN with_overrides(base, lang.run.limits[1]) ELSE base
        User(base) == IF limits /= None THEN with_overrides(base, limits[1]) ELSE base
        Run(effective_limits, present, run_cmd, mounts) ==
            IF ~present.ok THEN Outcome(f, present.err, NoCall, NoOut)
            ELSE IF ~present.val THEN Outcome(f, "NotStarted", NoCall, NoOut)
            ELSE IF ~run_cmd.ok THEN Outcome(f, run_cmd.err, NoCall, NoOut)
            ELSE IF ~mounts.ok THEN Outcome(f, mounts.err, NoCall, NoOut)
            ELSE run_batch(f, host, b,
                           RunCommand(b, config, effective_limits, lang.run.path,
                                      config.sandbox_mounts \o lang.run.mounts,
                                      lang.run.env, run_cmd.val),
                           input, env.io /= 2, env.sup)
    IN  Run(User(Lang(config.default_limits)),
            file_exists(f, b, NeededFile(lang)),
            resolve_command(
                expand_command(lang.run.command, source_name(lang), NeededFile(lang)),
                env.found),
            validate_mounts(lang.run.mounts, host))

\* runner::execute_interpreted
execute_interpreted(f, host, b, config, lang, source, input, limits, env) ==
    LET Run(written) ==
            IF ~written.res.ok THEN Outcome(f, written.res.err, NoCall, NoOut)
            ELSE execute(written.fs, host, b, config, lang, input, limits, env)
    IN  Run(write_file(f, b, source_name(lang), source, env.io /= 1))

\* default_compile_limits that returns the limits of a run
default_compile_limitsOfRun == DefaultLimits

\* runner::compile::default_compile_limits
default_compile_limits ==
    [DefaultLimits EXCEPT !.time_limit = Some(300),
                          !.wall_time_limit = Some(600),
                          !.memory_limit = Some(524288),
                          !.max_processes = Some(10),
                          !.max_output = Some(65536)]

\* let success = result.exit_code == Some(0), with a missing exit code
\* taken for 0
successUnlessNonZero(execution) == execution.exit_code \in {None, Some(0)}

\* let success = result.exit_code == Some(0)
success(execution) == execution.exit_code = Some(0)

\* CompileResult::is_success
is_success(compile_result) ==
    compile_result.success /\ compile_result.result[1].exit_code = Some(0)

\* runner::compile once the language's compile step is known: the source is
\* written, the limits are merged, the command is resolved and run
compile_step(f, host, b, config, cfg, source, limits, env) ==
    LET Judged(r, execution) ==
            [r EXCEPT !.out.success = success(execution),
                      !.out.output = IF @ = <<>> /\ execution.message /= None
                                     THEN <<execution.message[1]>> ELSE @]
        Compiled(r) == IF r.ret /= "Ok" THEN r ELSE Judged(r, r.out.result[1])
        Effective(base_limits, lang_limits) ==
            CASE limits /= None /\ lang_limits /= None ->
                    with_overrides(with_overrides(base_limits, lang_limits[1]), limits[1])
              [] limits /= None /\ lang_limits = None ->
                    with_overrides(base_limits, limits[1])
              [] limits = None /\ lang_limits /= None ->
                    with_overrides(base_limits, lang_limits[1])
              [] OTHER -> base_limits
        Run(written, cmd) ==
            IF ~written.res.ok THEN Outcome(f, written.res.err, NoCall, NoOut)
            ELSE IF ~cmd.ok THEN Outcome(written.fs, cmd.err, NoCall, NoOut)
            ELSE Compiled(run_with_output(
                              written.fs, host, b,
                              RunCommand(b, config,
                                         Effective(default_compile_limits, cfg.limits),
                                         DEFAULT_SANDBOX_PATH, config.sandbox_mounts,
                                         cfg.env, cmd.val),
                              env.io /= 2, env.sup))
    IN  Run(write_file(f, b, cfg.source_name, source, env.io /= 1),
            resolve_command(
                expand_command(cfg.command, cfg.source_name, cfg.output_name),
                env.found))

\* runner::compile that writes the source before it looks for the compile step
compileStagingFirst(f, host, b, config, lang, source, limits, env) ==
    IF lang.compile = None
    THEN Outcome(write_file(f, b, source_name(lang), source, env.io /= 1).fs,
                 "NotCompiled", NoCall, NoOut)
    ELSE compile_step(f, host, b, config, lang.compile[1], source, limits, env)

\* runner::compile
compile(f, host, b, config, lang, source, limits, env) ==
    IF lang.compile = None THEN Outcome(f, "NotCompiled", NoCall, NoOut)
    ELSE compile_step(f, host, b, config, lang.compile[1], source, limits, env)

\* InteractiveSession::start
start(f, host, b, config, lang, limits, env) ==
    LET Lang(base) == IF lang.run.limits /= None
                      THEN with_overrides(base, lang.run.limits[1]) ELSE base
        User(base) == IF limits /= None THEN with_overrides(base, limits[1]) ELSE base
        Start(effective_limits, run_cmd, mounts) ==
            IF ~run_cmd.ok THEN Outcome(f, run_cmd.err, NoCall, NoOut)
            ELSE IF ~mounts.ok THEN Outcome(f, mounts.err, NoCall, NoOut)
            ELSE spawn(f, host, b,
                       RunCommand(b, config, effective_limits, lang.run.path,
                                  config.sandbox_mounts \o lang.run.mounts,
                                  lang.run.env, run_cmd.val),
                       env.sup)
    IN  Start(User(Lang(config.default_limits)),
              resolve_command(
                  expand_command(lang.run.command, source_name(lang), NeededFile(lang)),
                  env.found),
              validate_mounts(lang.run.mounts, host))

\* Runner::compile_and_run whose run step ignores the compile result
compile_and_runIgnoringSuccess(f, host, b, config, lang, source, input, compile_limits, run_limits, env1, env2) ==
    LET Ran(c, r) ==
            IF r.ret /= "Ok"
            THEN Outcome(r.fs, "Execute", r.call,
                         [r.out EXCEPT !.error = r.ret, !.compile_call = c.call,
                                       !.compile_result = Some(c.out)])
            ELSE Outcome(r.fs, "Ok", r.call,
                         [r.out EXCEPT !.compile_call = c.call,
                                       !.compile_result = Some(c.out)])
        Compiled(c) ==
            IF c.ret /= "Ok"
            THEN Outcome(c.fs, "Compile", NoCall,
                         [NoOut EXCEPT !.error = c.ret, !.compile_call = c.call])
            ELSE Ran(c, execute(c.fs, host, b, config, lang, input, run_limits, env2))
    IN  Compiled(compile(f, host, b, config, lang, source, compile_limits, env1))

\* Runner::compile_and_run: the compile step, then the run step; env1 and
\* env2 are what the host decides during each.  The outcome keeps the
\* CompileResult, the compile step's supervisor call and, for the two error
\* kinds, the error of the step that failed; call is the run step's call.
compile_and_run(f, host, b, config, lang, source, input, compile_limits, run_limits, env1, env2) ==
    LET Ran(c, r) ==
            IF r.ret /= "Ok"
            THEN Outcome(r.fs, "Execute", r.call,
                         [r.out EXCEPT !.error = r.ret, !.compile_call = c.call,
                                       !.compile_result = Some(c.out)])
            ELSE Outcome(r.fs, "Ok", r.call,
                         [r.out EXCEPT !.compile_call = c.call,
                                       !.compile_result = Some(c.out)])
        Compiled(c) ==
            IF c.ret /= "Ok"
            THEN Outcome(c.fs, "Compile", NoCall,
                         [NoOut EXCEPT !.error = c.ret, !.compile_call = c.call])
            ELSE IF c.out.success
            THEN Ran(c, execute(c.fs, host, b, config, lang, input, run_limits, env2))
            ELSE Outcome(c.fs, "Ok", NoCall,
                         [NoOut EXCEPT !.compile_call = c.call,
                                       !.compile_result = Some(c.out)])
    IN  Compiled(compile(f, host, b, config, lang, source, compile_limits, env1))

Next ==
    \/ \E t \in Tasks : AcquireCall(t)
    \/ \E t \in Tasks : NextId(t)
    \/ \E t \in Tasks : InitBox(t)
    \/ \E t \in Tasks : Cleanup(t)
    \/ \E t \in Tasks : DropBox(t)
    \/ DetachedCleanup

Spec == Init /\ [][Next]_vars

\* The scheduler runs every admitted acquisition and every Init to its end,
\* and the callers drop every box they hold.
Fairness ==
    \A t \in Tasks : /\ WF_vars(NextId(t))
                     /\ WF_vars(InitBox(t))
                     /\ WF_vars(DropBox(t))

FairSpec == Init /\ [][Next]_vars /\ Fairness

(***************************************************************************)
(* A caller that owns one box it initializes itself, and a Runner.          *)
(***************************************************************************)
BoxIds == {U32Of(0)}

Sources == {<< <<"source">> >>}

Inputs == {None, Some(<< <<"input">> >>)}

\* what the host decides during one handler: the PATH lookup fails, or one
\* of the writes fails, or the supervisor is run
Envs ==
    {e \in [found : BOOLEAN, io : 0..2, sup : RunOutcomes] :
        (~e.found \/ e.io /= 0) => (e.found \/ e.io = 0) /\ e.sup = <<"no_meta">>}

\* IsolateBox::init called directly: the box holds no pool permit
DirectInit(t) ==
    /\ pc[t] = "idle"
    /\ calls < MaxCalls
    /\ \E id \in BoxIds, cgroup \in BOOLEAN :
        pending' = [pending EXCEPT ![t] =
                      [active |-> TRUE, id |-> id, cgroup |-> cgroup, permit |-> FALSE]]
    /\ pc' = [pc EXCEPT ![t] = "init"]
    /\ calls' = calls + 1
    /\ last' = Event(t, "direct_init", "Called", NoCall)
    /\ UNCHANGED <<overflow_checks, start_id, count, pool_cgroup, config_cgroup, arg,
                   next_id, permits, waiters, box, detached, acquired, fs, fixed,
                   streamVars>>

\* a handler returns
Return(t, op, r) ==
    /\ fs' = r.fs
    /\ last' = EventOut(t, op, r.ret, r.call, r.out)
    /\ calls' = calls + 1
    /\ UNCHANGED <<overflow_checks, start_id, count, pool_cgroup, config_cgroup, arg,
                   next_id, permits, waiters, pc, pending, box, detached, acquired,
                   fixed, streamVars>>

\* a Runner handler returns: the event names the language
ReturnFor(t, op, lang, r) == Return(t, op, [r EXCEPT !.out.lang = lang.name])

\* Runner.config
Config ==
    [cgroup |-> config_cgroup, default_limits |-> default_limits,
     sandbox_mounts |-> sandbox_mounts]

\* Runner::compile
RunnerCompile(t) ==
    /\ pc[t] = "holding"
    /\ calls < MaxCalls
    /\ \E lang \in languages, source \in Sources, env \in Envs :
        \E r \in {compile(fs, host_dirs, box[t], Config, lang, source, user_limits, env)} :
            ReturnFor(t, "compile", lang, r)

\* Runner::run
RunnerRun(t) ==
    /\ pc[t] = "holding"
    /\ calls < MaxCalls
    /\ \E lang \in languages, input \in Inputs, env \in Envs :
        \E r \in {execute(fs, host_dirs, box[t], Config, lang, input, user_limits, env)} :
            ReturnFor(t, "run", lang, r)

\* Runner::run_interpreted
RunnerRunInterpreted(t) ==
    /\ pc[t] = "holding"
    /\ calls < MaxCalls
    /\ \E lang \in languages, source \in Sources, input \in Inputs, env \in Envs :
        \E r \in {execute_interpreted(fs, host_dirs, box[t], Config, lang, source, input,
                                     user_limits, env)} :
            ReturnFor(t, "run_interpreted", lang, r)

\* Runner::run_interactive
RunnerRunInteractive(t) ==
    /\ pc[t] = "holding"
    /\ calls < MaxCalls
    /\ \E lang \in languages, env \in Envs :
        \E r \in {start(fs, host_dirs, box[t], Config, lang, user_limits, env)} :
            ReturnFor(t, "run_interactive", lang, r)

\* Runner::compile_and_run; what the host decides during a run step that
\* is not reached makes no difference
RunnerCompileAndRun(t) ==
    /\ pc[t] = "holding"
    /\ calls < MaxCalls
    /\ \E lang \in languages, source \in Sources, env1 \in Envs :
        \E c \in {compile(fs, host_dirs, box[t], Config, lang, source, user_limits, env1)} :
            \E input \in (IF c.ret = "Ok" /\ c.out.success THEN Inputs ELSE {None}),
               env2 \in (IF c.ret = "Ok" /\ c.out.success THEN Envs ELSE {env1}) :
                \E r \in {compile_and_run(fs, host_dirs, box[t], Config, lang, source,
                                          input, user_limits, user_limits, env1, env2)} :
                    ReturnFor(t, "compile_and_run", lang, r)

BoxInit ==
    /\ overflow_checks = FALSE
    /\ start_id = U32Of(0)
    /\ count = 0
    /\ pool_cgroup = FALSE
    /\ next_id = start_id
    /\ permits = count
    /\ waiters = <<>>
    /\ pc = [t \in Tasks |-> "idle"]
    /\ pending = [t \in Tasks |-> NoPending]
    /\ box = [t \in Tasks |-> NoBox]
    /\ detached = EmptyBag
    /\ acquired = <<>>
    /\ last = Event(0, "new", "Ok", NoCall)
    /\ config_cgroup \in BOOLEAN
    /\ default_limits = DefaultLimits
    /\ sandbox_mounts = <<>>
    /\ languages = Languages
    /\ host_dirs = {}
    /\ user_limits = None
    /\ stream = NoStream
    /\ events = <<>>
    /\ session = NoSession
    /\ builder = NoBuilder
    /\ argv = <<>>
    /\ parser = NoParser
    /\ cgroup_fs = NoCgroups
    /\ fs = NoFiles
    /\ calls = 0
    /\ arg = <<>>

BoxNext ==
    \/ DirectInit(1)
    \/ InitBox(1)
    \/ Cleanup(1)
    \/ DropBox(1)
    \/ DetachedCleanup
    \/ RunnerCompile(1)
    \/ RunnerRun(1)
    \/ RunnerRunInterpreted(1)
    \/ RunnerRunInteractive(1)

BoxSpec == BoxInit /\ [][BoxNext]_vars

(***************************************************************************)
(* A Runner called once on an initialized box that holds what earlier       *)
(* calls left in it, under a configuration whose limits or mounts vary.     *)
(***************************************************************************)
\* the box a successful IsolateBox::init returns
InitializedBox(id, cgroup) ==
    [exists |-> TRUE, id |-> id, box_path |-> BoxDir(id), initialized |-> TRUE,
     cgroup |-> cgroup, permit |-> FALSE, init_args |-> InitArgs(id, cgroup),
     cleaned |-> 0]

\* the host finds the program, writes every file and the supervisor runs
\* the program to the end with the given meta file
HostRuns(meta) == [found |-> TRUE, io |-> 0, sup |-> <<"meta", meta>>]

\* the files a compilation that succeeded leaves in a box
CompiledFiles(b) ==
    compile(NoFiles, {}, b,
            [cgroup |-> FALSE, default_limits |-> DefaultLimits, sandbox_mounts |-> <<>>],
            Cpp, CHOOSE src \in Sources : TRUE, None, HostRuns(MetaExit0)).fs

\* the files a run_interpreted leaves in a box
InterpretedFiles(b) ==
    execute_interpreted(
        NoFiles, {}, b,
        [cgroup |-> FALSE, default_limits |-> DefaultLimits, sandbox_mounts |-> <<>>],
        Python3, CHOOSE src \in Sources : TRUE, None, None, HostRuns(MetaExit0)).fs

\* the files earlier calls leave in a box: none (a fresh box), those of a
\* compilation and those of a run_interpreted
StagedFiles(b) == {NoFiles, CompiledFiles(b), InterpretedFiles(b)}

LimitFields == DOMAIN DefaultLimits

\* limits whose present fields hold the value of their layer: 1.5, 2.5, ..
\* seconds, or 15, 25, ..
LimitsOf(present, layer) ==
    [f \in LimitFields |-> IF f \in present THEN Some(10 * layer + 5) ELSE None]

\* the sets of present fields a layer is drawn from, for one field
Presences(f) == {{}, {f}, LimitFields}

\* an optional layer: absent, or present with a set of fields
OptionalLimits(present, layer) ==
    IF present = None THEN None ELSE Some(LimitsOf(present[1], layer))

\* the optional layers for one field
OptionalLayers(f, layer) ==
    {OptionalLimits(p, layer) : p \in {None} \cup {Some(q) : q \in Presences(f)}}

\* the language with the run limits and the compile limits
WithLimits(lang, run_limits, compile_limits) ==
    [lang EXCEPT !.run.limits = run_limits,
                 !.compile = IF @ = None THEN @
                             ELSE Some([@[1] EXCEPT !.limits = compile_limits])]

GlobalSource == <<"/", "opt", "/", "global">>

LanguageSource == <<"/", "opt", "/", "lang">>

\* the mount lists of the configuration: none, or one mount
GlobalMounts ==
    {<<>>} \cup {<<[source |-> GlobalSource, target |-> <<"/", "global">>,
                    writable |-> FALSE, optional |-> o]>> : o \in BOOLEAN}

\* the mount lists of a language's run step: none, or one mount
LanguageMounts ==
    {<<>>} \cup {<<[source |-> LanguageSource, target |-> <<"/", "lang">>,
                    writable |-> TRUE, optional |-> o]>> : o \in BOOLEAN}

\* the language with the run mounts
WithMounts(lang, mounts) == [lang EXCEPT !.run.mounts = mounts]

RunnerInit ==
    /\ overflow_checks = FALSE
    /\ start_id = U32Of(0)
    /\ count = 0
    /\ pool_cgroup = FALSE
    /\ next_id = start_id
    /\ permits = count
    /\ waiters = <<>>
    /\ pc = [t \in Tasks |-> IF t = 1 THEN "holding" ELSE "idle"]
    /\ pending = [t \in Tasks |-> NoPending]
    /\ detached = EmptyBag
    /\ acquired = <<>>
    /\ config_cgroup \in BOOLEAN
    /\ calls = MaxCalls - 1
    /\ arg = <<>>
    /\ stream = NoStream
    /\ events = <<>>
    /\ session = NoSession
    /\ builder = NoBuilder
    /\ argv = <<>>
    /\ parser = NoParser
    /\ cgroup_fs = NoCgroups
    /\ \E id \in BoxIds :
          /\ box = [t \in Tasks |->
                      IF t = 1 THEN InitializedBox(id, config_cgroup) ELSE NoBox]
          /\ last = Event(1, "init", "Ok", InitArgs(id, config_cgroup))
    /\ \/ /\ sandbox_mounts = <<>>
          /\ host_dirs = {}
          /\ \E f \in LimitFields :
                /\ default_limits \in {LimitsOf(p, 1) : p \in Presences(f)}
                /\ \E p \in {None} \cup {Some(q) : q \in Presences(f)} :
                      languages = {WithLimits(lang, OptionalLimits(p, 2),
                                              OptionalLimits(p, 4)) : lang \in Languages}
                /\ user_limits \in OptionalLayers(f, 3)
          /\ fs = CompiledFiles(box[1])
       \/ /\ default_limits = DefaultLimits
          /\ user_limits = None
          /\ sandbox_mounts \in GlobalMounts
          /\ host_dirs \in SUBSET {GlobalSource, LanguageSource}
          /\ \E m \in LanguageMounts :
                languages = {WithMounts(lang, m) : lang \in Languages}
          /\ fs \in StagedFiles(box[1])

RunnerNext ==
    \/ RunnerCompile(1)
    \/ RunnerRun(1)
    \/ RunnerRunInterpreted(1)
    \/ RunnerRunInteractive(1)
    \/ RunnerCompileAndRun(1)

RunnerSpec == RunnerInit /\ [][RunnerNext]_vars

(***************************************************************************)
(* A caller that builds and merges ResourceLimits: default_limits is the    *)
(* base and user_limits the override.                                       *)
(***************************************************************************)
\* the limits a caller returns
Limits(t, op, limits) ==
    Return(t, op, Outcome(fs, "Ok", NoCall, [NoOut EXCEPT !.result = Some(limits)]))

\* base.with_overrides(&overrides)
WithOverrides(t) ==
    /\ calls < MaxCalls
    /\ Limits(t, "with_overrides", with_overrides(default_limits, user_limits[1]))

\* ResourceLimits::new()
New(t) ==
    /\ calls < MaxCalls
    /\ Limits(t, "ResourceLimits::new", NewLimits)

\* the seconds a caller sets a time limit to: 3.5 and 10
TimeLimits == {35, 100}

\* base.with_overrides(&ResourceLimits::new().with_time_limit(seconds))
OverrideTimeLimit(t) ==
    /\ calls < MaxCalls
    /\ \E seconds \in TimeLimits :
        Limits(t, "override_time_limit",
               with_overrides(default_limits, with_time_limit(NewLimits, seconds)))

LimitsInit ==
    /\ overflow_checks = FALSE
    /\ start_id = U32Of(0)
    /\ count = 0
    /\ pool_cgroup = FALSE
    /\ next_id = start_id
    /\ permits = count
    /\ waiters = <<>>
    /\ pc = [t \in Tasks |-> "idle"]
    /\ pending = [t \in Tasks |-> NoPending]
    /\ box = [t \in Tasks |-> NoBox]
    /\ detached = EmptyBag
    /\ acquired = <<>>
    /\ last = Event(0, "new", "Ok", NoCall)
    /\ config_cgroup = FALSE
    /\ fs = NoFiles
    /\ calls = MaxCalls - 1
    /\ arg = <<>>
    /\ sandbox_mounts = <<>>
    /\ languages = Languages
    /\ host_dirs = {}
    /\ stream = NoStream
    /\ events = <<>>
    /\ session = NoSession
    /\ builder = NoBuilder
    /\ argv = <<>>
    /\ parser = NoParser
    /\ cgroup_fs = NoCgroups
    /\ default_limits \in {LimitsOf(p, 1) : p \in SUBSET LimitFields}
    /\ user_limits \in {Some(LimitsOf(p, 3)) : p \in SUBSET LimitFields}

LimitsNext ==
    \/ WithOverrides(1)
    \/ New(1)
    \/ OverrideTimeLimit(1)

LimitsSpec == LimitsInit /\ [][LimitsNext]_vars

(***************************************************************************)
(* The background task of an InteractiveEventStream, the handles that       *)
(* write to it and the child of its session.  One step of the task is one   *)
(* turn of its loop: the first ready branch of the biased select! and the   *)
(* handler of that branch.                                                  *)
(***************************************************************************)
\* the meta file of the session, in the box with id 0
InteractiveMeta ==
    Join(Join(BoxDir(U32Of(0)), <<"box">>), <<"interactive_meta", ".", "txt">>)

\* InteractiveEvent::Stdout(data)
Stdout(data) == [kind |-> "Stdout", data |-> data, result |-> None]

\* InteractiveEvent::Exited(result)
Exited(result) == [kind |-> "Exited", data |-> <<>>, result |-> Some(result)]

\* what child.try_wait() can return ("" where it is not called)
TryWait(exited) == IF exited THEN {"exited", "error"} ELSE {"running", "error"}

\* InteractiveSession::is_terminated: the flag it leaves and what it returns
is_terminated(terminated, polled) ==
    IF terminated THEN [terminated |-> TRUE, value |-> TRUE]
    ELSE CASE polled = "exited" -> [terminated |-> TRUE, value |-> TRUE]
           [] polled = "running" -> [terminated |-> FALSE, value |-> FALSE]
           [] OTHER -> [terminated |-> TRUE, value |-> TRUE]

\* IsolateProcess::wait once the child has exited
process_wait(f, meta_path) ==
    IF PathExists(f, meta_path)
    THEN IF meta_path \in DOMAIN f THEN Ok(to_execution_result(parse(f[meta_path])))
         ELSE Err("Io")
    ELSE Err("CommandFailed")

\* InteractiveSession::wait
wait(terminated, f, meta_path) ==
    IF terminated THEN Err("Terminated") ELSE process_wait(f, meta_path)

\* every variable but those of the stream and the files
streamFrame ==
    <<overflow_checks, start_id, count, pool_cgroup, next_id, permits, waiters,
      pc, pending, box, detached, acquired, last, config_cgroup, calls, arg, fixed,
      session, builder, argv, parser, cgroup_fs>>

\* InteractiveSessionHandle::write while the task holds the receiver
HandleWrite ==
    /\ stream.active /\ stream.task = "running" /\ stream.handles
    /\ stream.submitted < MaxWrites
    /\ Len(stream.queue) < 100
    /\ stream' = [stream EXCEPT !.queue = Append(@, stream.submitted + 1),
                                !.submitted = @ + 1]
    /\ UNCHANGED <<streamFrame, fs, events>>

\* the last InteractiveSessionHandle is dropped
DropHandles ==
    /\ stream.active /\ stream.handles
    /\ stream' = [stream EXCEPT !.handles = FALSE]
    /\ UNCHANGED <<streamFrame, fs, events>>

\* the child writes a chunk to its stdout
ChildWrites ==
    /\ stream.active /\ ~stream.exited /\ ~stream.eof
    /\ stream.written < MaxChunks
    /\ stream' = [stream EXCEPT !.pipe = Append(@, stream.written + 1),
                                !.written = @ + 1]
    /\ UNCHANGED <<streamFrame, fs, events>>

\* the child closes its stdout
ChildClosesStdout ==
    /\ stream.active /\ ~stream.exited /\ ~stream.eof
    /\ stream' = [stream EXCEPT !.eof = TRUE]
    /\ UNCHANGED <<streamFrame, fs, events>>

\* the child (the supervisor) exits: its pipes close and it has written the
\* meta file, or none
ChildExits ==
    /\ stream.active /\ ~stream.exited
    /\ stream' = [stream EXCEPT !.exited = TRUE, !.eof = TRUE]
    /\ \E outcome \in {<<"no_meta">>} \cup {<<"meta", m>> : m \in MetaContents} :
        fs' = IF outcome[1] = "meta" THEN PutFile(fs, InteractiveMeta, outcome[2])
              ELSE fs
    /\ UNCHANGED <<streamFrame, events>>

\* the task leaves its loop
Stopped(s, by) == [s EXCEPT !.task = "stopped", !.stopped_by = by]

\* first branch: Some(data) = stdin_rx.recv(), then session.write(&data);
\* a write to a child that has exited fails
TaskWrite ==
    /\ stream.active /\ stream.task = "running"
    /\ stream.queue /= <<>>
    /\ stream' = IF stream.terminated \/ stream.exited
                 THEN Stopped([stream EXCEPT !.queue = Tail(@)], "write")
                 ELSE [stream EXCEPT !.queue = Tail(@),
                                     !.received = Append(@, Head(stream.queue))]
    /\ UNCHANGED <<streamFrame, fs, events>>

\* the read of stdout taken although a write is queued
TaskReadStdoutUnbiased ==
    /\ stream.active /\ stream.task = "running"
    /\ ~stream.stdout_closed
    /\ stream.terminated \/ stream.pipe /= <<>> \/ stream.eof
    /\ IF ~stream.terminated /\ stream.pipe /= <<>>
       THEN /\ events' = Append(events, Stdout(Head(stream.pipe)))
            /\ stream' = [stream EXCEPT !.pipe = Tail(@)]
       ELSE /\ events' = events
            /\ stream' = [stream EXCEPT !.stdout_closed = TRUE, !.permit = TRUE]
    /\ UNCHANGED <<streamFrame, fs>>

\* second branch: session.read_stdout(..), if !stdout_closed
TaskReadStdout ==
    /\ stream.active /\ stream.task = "running"
    /\ stream.queue = <<>>
    /\ ~stream.stdout_closed
    /\ stream.terminated \/ stream.pipe /= <<>> \/ stream.eof
    /\ IF ~stream.terminated /\ stream.pipe /= <<>>
       THEN /\ events' = Append(events, Stdout(Head(stream.pipe)))
            /\ stream' = [stream EXCEPT !.pipe = Tail(@)]
       ELSE /\ events' = events
            /\ stream' = [stream EXCEPT !.stdout_closed = TRUE, !.permit = TRUE]
    /\ UNCHANGED <<streamFrame, fs>>

\* third branch: termination_notify.notified(), if stdout_closed, then
\* session.is_terminated() and, when it holds, session.wait()
TaskNotified ==
    /\ stream.active /\ stream.task = "running"
    /\ stream.queue = <<>>
    /\ stream.stdout_closed /\ stream.permit
    /\ \E polled \in IF stream.terminated THEN {""} ELSE TryWait(stream.exited) :
        \E it \in {is_terminated(stream.terminated, polled)} :
            IF it.value
            THEN \E result \in {wait(it.terminated, fs, InteractiveMeta)} :
                    /\ events' = IF result.ok THEN Append(events, Exited(result.val))
                                 ELSE events
                    /\ stream' = Stopped([stream EXCEPT !.permit = FALSE,
                                                        !.terminated = TRUE,
                                                        !.polled = polled], "exit")
            ELSE /\ events' = events
                 /\ stream' = [stream EXCEPT !.permit = FALSE,
                                             !.terminated = it.terminated]
    /\ UNCHANGED <<streamFrame, fs>>

\* InteractiveEventStream::new(session) on a session that start returned,
\* or on one its owner has already found terminated
StreamInit ==
    /\ overflow_checks = FALSE
    /\ start_id = U32Of(0)
    /\ count = 0
    /\ pool_cgroup = FALSE
    /\ next_id = start_id
    /\ permits = count
    /\ waiters = <<>>
    /\ pc = [t \in Tasks |-> "idle"]
    /\ pending = [t \in Tasks |-> NoPending]
    /\ box = [t \in Tasks |-> NoBox]
    /\ detached = EmptyBag
    /\ acquired = <<>>
    /\ last = Event(0, "new", "Ok", NoCall)
    /\ config_cgroup = FALSE
    /\ fs = NoFiles
    /\ calls = 0
    /\ arg = <<>>
    /\ default_limits = DefaultLimits
    /\ sandbox_mounts = <<>>
    /\ languages = Languages
    /\ host_dirs = {}
    /\ user_limits = None
    /\ \E terminated \in BOOLEAN :
        stream = [active |-> TRUE, task |-> "running", stopped_by |-> "",
                  stdout_closed |-> FALSE, permit |-> FALSE, queue |-> <<>>,
                  handles |-> TRUE, submitted |-> 0, terminated |-> terminated,
                  exited |-> FALSE, eof |-> FALSE, pipe |-> <<>>, written |-> 0,
                  received |-> <<>>, polled |-> ""]
    /\ events = <<>>
    /\ session = NoSession
    /\ builder = NoBuilder
    /\ argv = <<>>
    /\ parser = NoParser
    /\ cgroup_fs = NoCgroups

StreamNext ==
    \/ HandleWrite
    \/ DropHandles
    \/ ChildWrites
    \/ ChildClosesStdout
    \/ ChildExits
    \/ TaskWrite
    \/ TaskReadStdout
    \/ TaskNotified

StreamSpec == StreamInit /\ [][StreamNext]_vars

\* the task is a spawned tokio task: a branch of its select! that is ready
\* is eventually taken
StreamFairness ==
    /\ WF_vars(TaskWrite)
    /\ WF_vars(TaskReadStdout)
    /\ WF_vars(TaskNotified)

StreamFairSpec == StreamSpec /\ StreamFairness

(***************************************************************************)
(* An InteractiveSession that its caller drives directly: the caller's      *)
(* operations and the child (the supervisor and the program under it).      *)
(* Bytes are one-character strings; a write is one sequence of bytes.       *)
(***************************************************************************)
LF == "\n"

CR == "\r"

\* the i-th line the child writes, and the ways it ends a line
LineOf(i) == IF i % 2 = 1 THEN <<"a">> ELSE <<"b">>

Terminators == {<<LF>>, <<CR, LF>>}

\* what the caller writes
WriteData == {<<>>, <<"x">>}

\* position of the first LF of a byte sequence, 0 if it has none
RECURSIVE FirstLF(_, _)
FirstLF(bytes, i) ==
    IF i > Len(bytes) THEN 0
    ELSE IF bytes[i] = LF THEN i
    ELSE FirstLF(bytes, i + 1)

\* line.pop() of a trailing '\n', then of a trailing '\r'
StripNewline(line) ==
    IF line /= <<>> /\ line[Len(line)] = LF
    THEN LET l == SubSeq(line, 1, Len(line) - 1)
         IN IF l /= <<>> /\ l[Len(l)] = CR THEN SubSeq(l, 1, Len(l) - 1) ELSE l
    ELSE line

\* every variable but the session and the files
sessionFrame ==
    <<overflow_checks, start_id, count, pool_cgroup, next_id, permits, waiters,
      pc, pending, box, detached, acquired, last, config_cgroup, calls, arg, fixed,
      stream, events, builder, argv, parser, cgroup_fs>>

\* the caller may call an operation: it holds the session and is not in wait
Callable == session.active /\ ~session.consumed /\ session.waiting = ""

\* the session after an operation has returned
SessionReturn(s, op, data, res) ==
    [s EXCEPT !.ret = [op |-> op, data |-> data, res |-> res], !.tick = ~@]

\* IsolateProcess::write: write_all and flush on the stdin pipe; a write of
\* no bytes touches no pipe, a write to a child that has exited is refused
process_write(s, data) ==
    IF ~s.stdin THEN [s |-> s, res |-> Err("Isolate")]
    ELSE IF data = <<>> THEN [s |-> s, res |-> Ok(<<>>)]
    ELSE IF s.exited THEN [s |-> s, res |-> Err("Isolate")]
    ELSE [s |-> [s EXCEPT !.delivered = Append(@, data)], res |-> Ok(<<>>)]

\* A mutant of write: the terminated flag is not looked at.
writeIgnoringTerminated(s, data) == process_write(s, data)

\* InteractiveSession::write
write(s, data) ==
    IF s.terminated THEN [s |-> s, res |-> Err("Terminated")]
    ELSE process_write(s, data)

\* InteractiveSession::write_line
write_line(s, line) == write(s, line \o <<LF>>)

\* InteractiveSession::read_line on a session whose read can complete
read_line(s) ==
    IF s.terminated THEN [s |-> s, res |-> Ok(None)]
    ELSE LET k == FirstLF(s.pipe, 1)
             n == IF k = 0 THEN Len(s.pipe) ELSE k
             line == StripNewline(SubSeq(s.pipe, 1, n))
         IN IF n = 0 THEN [s |-> s, res |-> Ok(None)]
            ELSE [s |-> [s EXCEPT !.pipe = SubSeq(@, n + 1, Len(@)),
                                  !.got = Append(@, line)],
                  res |-> Ok(Some(line))]

Write ==
    /\ Callable
    /\ session.writes < MaxWrites
    /\ \E data \in WriteData :
        \E r \in {write(session, data)} :
            session' = SessionReturn([r.s EXCEPT !.writes = @ + 1], "write", data, r.res)
    /\ UNCHANGED <<sessionFrame, fs>>

WriteLine ==
    /\ Callable
    /\ session.writes < MaxWrites
    /\ \E line \in WriteData :
        \E r \in {write_line(session, line)} :
            session' = SessionReturn([r.s EXCEPT !.writes = @ + 1], "write_line",
                                line \o <<LF>>, r.res)
    /\ UNCHANGED <<sessionFrame, fs>>

\* InteractiveSession::close_stdin
CloseStdin ==
    /\ Callable
    /\ session' = SessionReturn([session EXCEPT !.stdin = FALSE], "close_stdin", <<>>, Ok(<<>>))
    /\ UNCHANGED <<sessionFrame, fs>>

\* read_line returns once the reader has a whole line or has seen the end
ReadLine ==
    /\ Callable
    /\ session.terminated \/ FirstLF(session.pipe, 1) /= 0 \/ session.eof
    /\ \E r \in {read_line(session)} :
        session' = SessionReturn(r.s, "read_line", <<>>, r.res)
    /\ UNCHANGED <<sessionFrame, fs>>

IsTerminated ==
    /\ Callable
    /\ \E polled \in IF session.terminated THEN {""} ELSE TryWait(session.exited) :
        \E it \in {is_terminated(session.terminated, polled)} :
            session' = SessionReturn([session EXCEPT !.terminated = it.terminated],
                                "is_terminated", <<>>, Ok(it.value))
    /\ UNCHANGED <<sessionFrame, fs>>

\* InteractiveSession::kill: the supervisor is killed and reaped; killing a
\* child that has already exited may be refused
Kill ==
    /\ Callable
    /\ IF session.terminated
       THEN session' = SessionReturn(session, "kill", <<>>, Ok(<<>>))
       ELSE \E ok \in IF session.exited THEN BOOLEAN ELSE {TRUE} :
            session' =
                IF ok
                THEN SessionReturn([session EXCEPT !.terminated = TRUE,
                                              !.killed = ~session.exited,
                                              !.exited = TRUE, !.eof = TRUE],
                              "kill", <<>>, Ok(<<>>))
                ELSE SessionReturn(session, "kill", <<>>, Err("Isolate"))
    /\ UNCHANGED <<sessionFrame, fs>>

\* the start of InteractiveSession::wait (alone or under wait_timeout): the
\* session is consumed; a terminated session returns at once, any other
\* closes stdin and awaits the child
WaitCalled(op) ==
    /\ Callable
    /\ session' =
        IF session.terminated
        THEN SessionReturn([session EXCEPT !.consumed = TRUE], op, <<>>, Err("Terminated"))
        ELSE [session EXCEPT !.consumed = TRUE, !.terminated = TRUE,
                             !.stdin = FALSE, !.waiting = op]
    /\ UNCHANGED <<sessionFrame, fs>>

Wait == WaitCalled("wait")

WaitTimeout == WaitCalled("wait_timeout")

\* the child has exited: IsolateProcess::wait reads the meta file
WaitReturns ==
    /\ session.active /\ session.waiting /= "" /\ session.exited
    /\ session' = SessionReturn([session EXCEPT !.waiting = ""], session.waiting, <<>>,
                           process_wait(fs, InteractiveMeta))
    /\ UNCHANGED <<sessionFrame, fs>>

\* A mutant of Deadline: the child is killed when the deadline passes.
DeadlineKilling ==
    /\ session.active /\ session.waiting = "wait_timeout" /\ ~session.exited
    /\ session' = SessionReturn([session EXCEPT !.waiting = "", !.killed = TRUE,
                                           !.exited = TRUE, !.eof = TRUE],
                           "wait_timeout", <<>>, Err("TimedOut"))
    /\ UNCHANGED <<sessionFrame, fs>>

\* wait_timeout's deadline passes before the child has exited: the wait and
\* with it the session are dropped, the child is left alone
Deadline ==
    /\ session.active /\ session.waiting = "wait_timeout" /\ ~session.exited
    /\ session' = SessionReturn([session EXCEPT !.waiting = ""], "wait_timeout", <<>>,
                           Err("TimedOut"))
    /\ UNCHANGED <<sessionFrame, fs>>

\* the child writes a line to its stdout
SessionChildWrites ==
    /\ session.active /\ ~session.exited /\ ~session.eof
    /\ Len(session.wrote) < MaxLines
    /\ \E end \in Terminators :
        session' = [session EXCEPT !.pipe = @ \o LineOf(Len(session.wrote) + 1) \o end,
                                   !.wrote = Append(@, LineOf(Len(session.wrote) + 1))]
    /\ UNCHANGED <<sessionFrame, fs>>

\* the child (the supervisor) exits on its own: its pipes close and it has
\* written the meta file, or none
SessionChildExits ==
    /\ session.active /\ ~session.exited
    /\ session' = [session EXCEPT !.exited = TRUE, !.eof = TRUE]
    /\ \E outcome \in {<<"no_meta">>} \cup {<<"meta", m>> : m \in MetaContents} :
        fs' = IF outcome[1] = "meta" THEN PutFile(fs, InteractiveMeta, outcome[2])
              ELSE fs
    /\ UNCHANGED sessionFrame

\* the session Runner::run_interactive returned for the box with id 0
SessionInit ==
    /\ overflow_checks = FALSE
    /\ start_id = U32Of(0)
    /\ count = 0
    /\ pool_cgroup = FALSE
    /\ next_id = start_id
    /\ permits = count
    /\ waiters = <<>>
    /\ pc = [t \in Tasks |-> "idle"]
    /\ pending = [t \in Tasks |-> NoPending]
    /\ box = [t \in Tasks |-> NoBox]
    /\ detached = EmptyBag
    /\ acquired = <<>>
    /\ last = Event(0, "new", "Ok", NoCall)
    /\ config_cgroup = FALSE
    /\ fs = NoFiles
    /\ calls = 0
    /\ arg = <<>>
    /\ default_limits = DefaultLimits
    /\ sandbox_mounts = <<>>
    /\ languages = Languages
    /\ host_dirs = {}
    /\ user_limits = None
    /\ stream = NoStream
    /\ events = <<>>
    /\ session = [active |-> TRUE, terminated |-> FALSE, stdin |-> TRUE,
                  exited |-> FALSE, killed |-> FALSE, eof |-> FALSE,
                  pipe |-> <<>>, wrote |-> <<>>, got |-> <<>>,
                  delivered |-> <<>>, writes |-> 0, consumed |-> FALSE,
                  waiting |-> "", tick |-> FALSE,
                  ret |-> [op |-> "start", data |-> <<>>, res |-> Ok(<<>>)]]
    /\ builder = NoBuilder
    /\ argv = <<>>
    /\ parser = NoParser
    /\ cgroup_fs = NoCgroups

SessionNext ==
    \/ Write
    \/ WriteLine
    \/ CloseStdin
    \/ ReadLine
    \/ IsTerminated
    \/ Kill
    \/ Wait
    \/ WaitTimeout
    \/ WaitReturns
    \/ Deadline
    \/ SessionChildWrites
    \/ SessionChildExits

SessionSpec == SessionInit /\ [][SessionNext]_vars

(***************************************************************************)
(* A caller that configures an IsolateCommand with the builder's methods,   *)
(* in any order, and then builds it.                                        *)
(***************************************************************************)
\* the limits handed to the builder: none, all, or a single field
BuilderLimits ==
    {LimitsOf(p, 1) : p \in {{}, LimitFields} \cup {{f} : f \in LimitFields}}

\* the mounts handed to the builder: an optional one and a required one
BuilderMounts ==
    {[source |-> GlobalSource, target |-> <<"/", "global">>,
      writable |-> FALSE, optional |-> TRUE],
     [source |-> LanguageSource, target |-> <<"/", "lang">>,
      writable |-> TRUE, optional |-> FALSE]}

EnvKeys == {"HOME"}

\* a user command with arguments that look like the builder's own
UserCommand == << <<"prog">>, <<"--time=", "9">>, <<"--">>, <<"--run">> >>

\* the orders in which a HashMap of these entries may be iterated
EnvOrders(env) ==
    IF Len(env) = 2 THEN {env, <<env[2], env[1]>>} ELSE {env}

InheritKeys == {"LANG"}

\* every variable but the builder and the vector it builds
builderFrame ==
    <<overflow_checks, start_id, count, pool_cgroup, next_id, permits, waiters,
      pc, pending, box, detached, acquired, last, config_cgroup, calls, arg, fixed,
      stream, events, session, fs, parser, cgroup_fs>>

\* a builder method returns the changed builder
Configure(cmd) ==
    /\ builder.active /\ ~builder.built
    /\ cmd /= builder.cmd
    /\ builder' = [builder EXCEPT !.cmd = cmd]
    /\ UNCHANGED <<builderFrame, argv>>

BuilderAction == \E a \in {"Init", "Run", "Cleanup"} : Configure([builder.cmd EXCEPT !.action = a])

BuilderLimitsSet == \E l \in BuilderLimits : Configure([builder.cmd EXCEPT !.limits = l])

BuilderMount ==
    /\ builder.active /\ Len(builder.cmd.mounts) < MaxPushes
    /\ \E m \in BuilderMounts : Configure([builder.cmd EXCEPT !.mounts = Append(@, m)])

BuilderEnv ==
    \E k \in EnvKeys : Configure([builder.cmd EXCEPT !.env = EnvInsert(@, k, <<"v">>)])

BuilderEnvInherit ==
    /\ builder.active /\ Len(builder.cmd.env_inherit) < MaxPushes
    /\ \E k \in InheritKeys : Configure([builder.cmd EXCEPT !.env_inherit = Append(@, k)])

BuilderMetaFile == Configure([builder.cmd EXCEPT !.meta_file = Some(<<"/", "tmp", "/", "meta">>)])

BuilderStdin == Configure([builder.cmd EXCEPT !.stdin = Some(<<"in">>)])

BuilderStdout == Configure([builder.cmd EXCEPT !.stdout = Some(<<"out">>)])

BuilderStderr == Configure([builder.cmd EXCEPT !.stderr = Some(<<"err">>)])

BuilderWorkingDir == Configure([builder.cmd EXCEPT !.working_dir = Some(<<"/", "box">>)])

BuilderCommand == Configure([builder.cmd EXCEPT !.command = UserCommand])

BuilderFullEnv == \E e \in BOOLEAN : Configure([builder.cmd EXCEPT !.full_env = e])

BuilderCgroup == \E e \in BOOLEAN : Configure([builder.cmd EXCEPT !.cgroup = e])

\* IsolateCommand::build consumes the builder
Build ==
    /\ builder.active /\ ~builder.built
    /\ builder' = [builder EXCEPT !.built = TRUE]
    /\ \E env \in EnvOrders(builder.cmd.env) :
        argv' = build([builder.cmd EXCEPT !.env = env], host_dirs)
    /\ UNCHANGED builderFrame

\* IsolateCommand::new("isolate", 0)
BuilderInit ==
    /\ overflow_checks = FALSE
    /\ start_id = U32Of(0)
    /\ count = 0
    /\ pool_cgroup = FALSE
    /\ next_id = start_id
    /\ permits = count
    /\ waiters = <<>>
    /\ pc = [t \in Tasks |-> "idle"]
    /\ pending = [t \in Tasks |-> NoPending]
    /\ box = [t \in Tasks |-> NoBox]
    /\ detached = EmptyBag
    /\ acquired = <<>>
    /\ last = Event(0, "new", "Ok", NoCall)
    /\ config_cgroup = FALSE
    /\ fs = NoFiles
    /\ calls = 0
    /\ arg = <<>>
    /\ default_limits = DefaultLimits
    /\ sandbox_mounts = <<>>
    /\ languages = Languages
    /\ host_dirs = {}
    /\ user_limits = None
    /\ stream = NoStream
    /\ events = <<>>
    /\ session = NoSession
    /\ builder = [active |-> TRUE, built |-> FALSE, cmd |-> NewCommand(IsolatePath, U32Of(0))]
    /\ argv = <<>>
    /\ parser = NoParser
    /\ cgroup_fs = NoCgroups

BuilderNext ==
    \/ BuilderAction
    \/ BuilderLimitsSet
    \/ BuilderMount
    \/ BuilderEnv
    \/ BuilderEnvInherit
    \/ BuilderMetaFile
    \/ BuilderStdin
    \/ BuilderStdout
    \/ BuilderStderr
    \/ BuilderWorkingDir
    \/ BuilderCommand
    \/ BuilderFullEnv
    \/ BuilderCgroup
    \/ Build

BuilderSpec == BuilderInit /\ [][BuilderNext]_vars

(***************************************************************************)
(* A caller that parses the text of a meta file, leniently or strictly.     *)
(***************************************************************************)
\* every variable but parser and cgroup_fs, with nothing going on
NothingElse ==
    /\ overflow_checks = FALSE
    /\ start_id = U32Of(0)
    /\ count = 0
    /\ pool_cgroup = FALSE
    /\ next_id = start_id
    /\ permits = count
    /\ waiters = <<>>
    /\ pc = [t \in Tasks |-> "idle"]
    /\ pending = [t \in Tasks |-> NoPending]
    /\ box = [t \in Tasks |-> NoBox]
    /\ detached = EmptyBag
    /\ acquired = <<>>
    /\ last = Event(0, "new", "Ok", NoCall)
    /\ config_cgroup = FALSE
    /\ fs = NoFiles
    /\ calls = 0
    /\ arg = <<>>
    /\ default_limits = DefaultLimits
    /\ sandbox_mounts = <<>>
    /\ languages = Languages
    /\ host_dirs = {}
    /\ user_limits = None
    /\ stream = NoStream
    /\ events = <<>>
    /\ session = NoSession
    /\ builder = NoBuilder

parserFrame ==
    <<overflow_checks, start_id, count, pool_cgroup, next_id, permits, waiters,
      pc, pending, box, detached, acquired, last, config_cgroup, calls, arg, fixed,
      stream, events, session, builder, argv, fs, cgroup_fs>>

\* the characters of the texts that are parsed
MetaChars == {"a", ":", " ", CR, LF}

MetaTexts == UNION {[1..n -> MetaChars] : n \in 0..MaxText}

\* the caller calls MetaFile::parse
Parse ==
    /\ parser.active
    /\ parser.called /= "parse"
    /\ parser' = [parser EXCEPT !.called = "parse",
                                !.ret = parse(lines(parser.content))]
    /\ UNCHANGED parserFrame

\* the caller calls MetaFile::try_parse
TryParse ==
    /\ parser.active
    /\ parser.called /= "try_parse"
    /\ parser' = [parser EXCEPT !.called = "try_parse",
                                !.ret = try_parse(lines(parser.content), 0, <<>>)]
    /\ UNCHANGED parserFrame

MetaInit ==
    /\ NothingElse
    /\ argv = <<>>
    /\ parser \in [active : {TRUE}, content : MetaTexts, called : {""}, ret : {<<>>}]
    /\ cgroup_fs = NoCgroups

MetaNext ==
    \/ Parse
    \/ TryParse

MetaSpec == MetaInit /\ [][MetaNext]_vars

(***************************************************************************)
(* A caller that turns the meta file of a run into an ExecutionResult.      *)
(***************************************************************************)
\* the status codes a meta file is given: the five of the supervisor and
\* one it does not know
StatusCodes == {"OK", "RE", "TO", "SG", "XX", "??"}

ExitCodes == {"0", "1", "x"}

\* the pieces the messages are made of
MessagePieces ==
    {"Time limit exceeded", "time limit", "(wall clock)", "Wall", "Out of memory",
     "memory", "Output", "internal error"}

Messages == UNION {[1..n -> MessagePieces] : n \in 0..MaxMessage}

\* the text of the meta file with the given status, message and exit code,
\* each on a line of its own when present
MetaText(given) ==
    (IF given.status = None THEN <<>> ELSE <<"status", ":", given.status[1], LF>>)
        \o (IF given.message = None THEN <<>>
            ELSE <<"message", ":">> \o given.message[1] \o <<LF>>)
        \o (IF given.exitcode = None THEN <<>> ELSE <<"exitcode", ":", given.exitcode[1], LF>>)

Givens ==
    [status : {None} \cup {Some(c) : c \in StatusCodes},
     message : {None} \cup {Some(m) : m \in Messages},
     exitcode : {None} \cup {Some(e) : e \in ExitCodes}]

\* the caller parses the meta file and calls to_execution_result
ToExecutionResult ==
    /\ parser.active
    /\ parser.called = ""
    /\ parser' = [parser EXCEPT
                    !.called = "to_execution_result",
                    !.ret = to_execution_result(parse(lines(parser.content)))]
    /\ UNCHANGED parserFrame

\* the caller calls is_success on the result
IsSuccess ==
    /\ parser.active
    /\ parser.called = "to_execution_result"
    /\ parser' = [parser EXCEPT
                    !.called = "is_success",
                    !.ret = [result |-> parser.ret,
                             success |-> execution_is_success(parser.ret)]]
    /\ UNCHANGED parserFrame

ResultInit ==
    /\ NothingElse
    /\ argv = <<>>
    /\ \E given \in Givens :
          parser = [active |-> TRUE, given |-> given, content |-> MetaText(given),
                    called |-> "", ret |-> <<>>]
    /\ cgroup_fs = NoCgroups

ResultNext ==
    \/ ToExecutionResult
    \/ IsSuccess

ResultSpec == ResultInit /\ [][ResultNext]_vars

(***************************************************************************)
(* The stdin channel of an event stream: the handles send, the task         *)
(* receives.                                                                *)
(***************************************************************************)
\* mpsc::channel::<Vec<u8>>(100)
StdinCapacity == 100

\* the write call n returns ret
WriteReturned(s, n, ret) ==
    [s EXCEPT !.write_ret = [call |-> n, ret |-> ret],
              !.failed = IF ret = "Terminated" THEN @ + 1 ELSE @]

\* A mutant of HandleSend: try_send in place of send, so that a write to a
\* full channel fails.
HandleSendFailsWhenFull ==
    /\ stream.active /\ stream.handles
    /\ stream.submitted < StdinCapacity + MaxWrites
    /\ Len(stream.suspended) < NumTasks
    /\ stream.task = "stopped" => stream.failed < MaxWrites
    /\ stream' =
        IF stream.task = "stopped"
        THEN WriteReturned([stream EXCEPT !.submitted = @ + 1],
                           stream.submitted + 1, "Terminated")
        ELSE IF stream.suspended = <<>> /\ Len(stream.queue) < StdinCapacity
        THEN WriteReturned([stream EXCEPT !.queue = Append(@, stream.submitted + 1),
                                          !.submitted = @ + 1],
                           stream.submitted + 1, "Ok")
        ELSE WriteReturned([stream EXCEPT !.submitted = @ + 1],
                           stream.submitted + 1, "Terminated")
    /\ UNCHANGED <<streamFrame, fs, events>>

\* InteractiveSessionHandle::write: stdin_tx.send(data).await, which fails
\* once the receiver is dropped, queues the data when the channel has room
\* and no earlier send is waiting, and waits otherwise
HandleSend ==
    /\ stream.active /\ stream.handles
    /\ stream.submitted < StdinCapacity + MaxWrites
    /\ Len(stream.suspended) < NumTasks
    /\ stream.task = "stopped" => stream.failed < MaxWrites
    /\ stream' =
        IF stream.task = "stopped"
        THEN WriteReturned([stream EXCEPT !.submitted = @ + 1],
                           stream.submitted + 1, "Terminated")
        ELSE IF stream.suspended = <<>> /\ Len(stream.queue) < StdinCapacity
        THEN WriteReturned([stream EXCEPT !.queue = Append(@, stream.submitted + 1),
                                          !.submitted = @ + 1],
                           stream.submitted + 1, "Ok")
        ELSE [stream EXCEPT !.suspended = Append(@, stream.submitted + 1),
                            !.submitted = @ + 1]
    /\ UNCHANGED <<streamFrame, fs, events>>

\* a waiting send goes on when the channel has room: the longest-waiting
\* one queues its data and returns Ok
SendResumes ==
    /\ stream.active /\ stream.task = "running"
    /\ stream.suspended /= <<>>
    /\ Len(stream.queue) < StdinCapacity
    /\ stream' = WriteReturned([stream EXCEPT !.queue = Append(@, Head(stream.suspended)),
                                              !.suspended = Tail(@)],
                               Head(stream.suspended), "Ok")
    /\ UNCHANGED <<streamFrame, fs, events>>

\* a waiting send fails when the task has dropped the receiver
SendFails ==
    /\ stream.active /\ stream.task = "stopped"
    /\ stream.suspended /= <<>>
    /\ stream' = WriteReturned([stream EXCEPT !.suspended = Tail(@)],
                               Head(stream.suspended), "Terminated")
    /\ UNCHANGED <<streamFrame, fs, events>>

\* InteractiveEventStream::new(session): the channel is empty
ChannelInit ==
    /\ overflow_checks = FALSE
    /\ start_id = U32Of(0)
    /\ count = 0
    /\ pool_cgroup = FALSE
    /\ next_id = start_id
    /\ permits = count
    /\ waiters = <<>>
    /\ pc = [t \in Tasks |-> "idle"]
    /\ pending = [t \in Tasks |-> NoPending]
    /\ box = [t \in Tasks |-> NoBox]
    /\ detached = EmptyBag
    /\ acquired = <<>>
    /\ last = Event(0, "new", "Ok", NoCall)
    /\ config_cgroup = FALSE
    /\ fs = NoFiles
    /\ calls = 0
    /\ arg = <<>>
    /\ default_limits = DefaultLimits
    /\ sandbox_mounts = <<>>
    /\ languages = Languages
    /\ host_dirs = {}
    /\ user_limits = None
    /\ \E terminated \in BOOLEAN :
        stream = [active |-> TRUE, task |-> "running", stopped_by |-> "",
                  stdout_closed |-> FALSE, permit |-> FALSE, queue |-> <<>>,
                  handles |-> TRUE, submitted |-> 0, terminated |-> terminated,
                  exited |-> FALSE, eof |-> FALSE, pipe |-> <<>>, written |-> 0,
                  received |-> <<>>, polled |-> "",
                  suspended |-> <<>>, failed |-> 0,
                  write_ret |-> [call |-> 0, ret |-> ""]]
    /\ events = <<>>
    /\ session = NoSession
    /\ builder = NoBuilder
    /\ argv = <<>>
    /\ parser = NoParser
    /\ cgroup_fs = NoCgroups

ChannelNext ==
    \/ HandleSend
    \/ SendResumes
    \/ SendFails
    \/ ChildExits
    \/ TaskWrite
    \/ TaskReadStdout
    \/ TaskNotified

ChannelSpec == ChannelInit /\ [][ChannelNext]_vars

(***************************************************************************)
(* The command-line program: it prepares the cgroup hierarchy, settles its  *)
(* configuration, then runs one box of a pool of one.                       *)
(***************************************************************************)
cgroupFrame ==
    <<overflow_checks, start_id, count, pool_cgroup, next_id, permits, waiters,
      pc, pending, box, detached, acquired, last, config_cgroup, calls, arg, fixed,
      stream, events, session, builder, argv, fs, parser>>

\* the cgroup hierarchy as prepare_cgroup sees it
CgroupFiles ==
    {f \in [controllers : {"absent", "other", "memory"},
            init_dir : BOOLEAN,
            procs_in_init : {FALSE},
            root_control : {FALSE},
            root_dir : BOOLEAN,
            root_subtree : {"unreadable", "other", "memory"}] :
        ~f.root_dir => f.root_subtree = "unreadable"}

FileOutcomes == {"ok", "io_error"}

\* prepare_cgroup goes to its next step
PrepareStep(step, files, effect) ==
    /\ cgroup_fs' = [cgroup_fs EXCEPT
                        !.step = step,
                        !.files = files,
                        !.effects = IF effect = "" THEN @ ELSE Append(@, effect)]
    /\ UNCHANGED cgroupFrame

\* prepare_cgroup returns
PrepareReturn(ret) ==
    /\ cgroup_fs' = [cgroup_fs EXCEPT !.step = "returned", !.ret = Some(ret)]
    /\ UNCHANGED cgroupFrame

Preparing(step) ==
    cgroup_fs.active /\ cgroup_fs.cli = "prepare" /\ cgroup_fs.step = step

\* controllers_path.exists()
PrepareCheckControllers ==
    /\ Preparing("check_controllers")
    /\ IF cgroup_fs.files.controllers = "absent"
       THEN PrepareReturn(Ok(FALSE))
       ELSE PrepareStep("read_controllers", cgroup_fs.files, "")

\* fs::read_to_string(&controllers_path)? and the search for "memory"
PrepareReadControllers ==
    /\ Preparing("read_controllers")
    /\ \E outcome \in FileOutcomes :
        IF outcome = "io_error" THEN PrepareReturn(Err("Io"))
        ELSE IF cgroup_fs.files.controllers /= "memory" THEN PrepareReturn(Ok(FALSE))
        ELSE PrepareStep("check_root", cgroup_fs.files, "")

\* A mutant of PrepareCheckRoot: a cgroup root that has the memory
\* controller is set up again.
PrepareCheckRootAgain ==
    /\ Preparing("check_root")
    /\ PrepareStep("create_init", cgroup_fs.files, "")

\* cg_root.exists() and the look at its cgroup.subtree_control
PrepareCheckRoot ==
    /\ Preparing("check_root")
    /\ IF cgroup_fs.files.root_dir /\ cgroup_fs.files.root_subtree = "memory"
       THEN PrepareReturn(Ok(TRUE))
       ELSE PrepareStep("create_init", cgroup_fs.files, "")

\* fs::create_dir(&init_cg)? when init does not exist
PrepareCreateInit ==
    /\ Preparing("create_init")
    /\ IF cgroup_fs.files.init_dir
       THEN PrepareStep("write_procs", cgroup_fs.files, "")
       ELSE \E outcome \in FileOutcomes :
            IF outcome = "io_error" THEN PrepareReturn(Err("Io"))
            ELSE PrepareStep("write_procs", [cgroup_fs.files EXCEPT !.init_dir = TRUE],
                             "create_init")

\* fs::write(init_cg.join("cgroup.procs"), pid)?
PrepareWriteProcs ==
    /\ Preparing("write_procs")
    /\ \E outcome \in FileOutcomes :
        IF outcome = "io_error" THEN PrepareReturn(Err("Io"))
        ELSE PrepareStep("write_root_control",
                         [cgroup_fs.files EXCEPT !.procs_in_init = TRUE], "write_procs")

\* fs::write(cg_base.join("cgroup.subtree_control"), "+memory +pids")?
PrepareWriteRootControl ==
    /\ Preparing("write_root_control")
    /\ \E outcome \in FileOutcomes :
        IF outcome = "io_error" THEN PrepareReturn(Err("Io"))
        ELSE PrepareStep("create_root",
                         [cgroup_fs.files EXCEPT !.root_control = TRUE],
                         "write_root_control")

\* fs::create_dir(cg_root)? when the cgroup root does not exist
PrepareCreateRoot ==
    /\ Preparing("create_root")
    /\ IF cgroup_fs.files.root_dir
       THEN PrepareStep("write_root_subtree", cgroup_fs.files, "")
       ELSE \E outcome \in FileOutcomes :
            IF outcome = "io_error" THEN PrepareReturn(Err("Io"))
            ELSE PrepareStep("write_root_subtree",
                             [cgroup_fs.files EXCEPT !.root_dir = TRUE,
                                                     !.root_subtree = "other"],
                             "create_root")

\* fs::write(cg_root.join("cgroup.subtree_control"), "+memory +pids")?
\* and Ok(true)
PrepareWriteRootSubtree ==
    /\ Preparing("write_root_subtree")
    /\ \E outcome \in FileOutcomes :
        IF outcome = "io_error" THEN PrepareReturn(Err("Io"))
        ELSE /\ cgroup_fs' = [cgroup_fs EXCEPT
                                !.step = "returned",
                                !.ret = Some(Ok(TRUE)),
                                !.files = [@ EXCEPT !.root_subtree = "memory"],
                                !.effects = Append(@, "write_root_subtree")]
             /\ UNCHANGED cgroupFrame

\* main, once the configuration is loaded: prepare_cgroup is called when
\* cgroup mode is enabled
CliStart ==
    /\ cgroup_fs.active
    /\ cgroup_fs.cli = "start"
    /\ cgroup_fs' = [cgroup_fs EXCEPT
                        !.cli = IF config_cgroup THEN "prepare" ELSE "command",
                        !.step = IF config_cgroup THEN "check_controllers" ELSE @]
    /\ UNCHANGED cgroupFrame

cliFrame ==
    <<overflow_checks, start_id, next_id, waiters, pending, box, detached, acquired,
      last, calls, arg, fixed, stream, events, session, builder, argv, fs, parser>>

\* A mutant of CliMatch: an error of prepare_cgroup leaves cgroup mode on.
CliMatchKeepsOnError ==
    /\ Preparing("returned")
    /\ config_cgroup' = (cgroup_fs.ret /= Some(Ok(FALSE)))
    /\ cgroup_fs' = [cgroup_fs EXCEPT !.cli = "command"]
    /\ UNCHANGED <<cliFrame, count, permits, pool_cgroup, pc>>

\* main: the match on what prepare_cgroup returned
CliMatch ==
    /\ Preparing("returned")
    /\ config_cgroup' = (cgroup_fs.ret = Some(Ok(TRUE)))
    /\ cgroup_fs' = [cgroup_fs EXCEPT !.cli = "command"]
    /\ UNCHANGED <<cliFrame, count, permits, pool_cgroup, pc>>

\* run_compile and run_execute: BoxPool::new(box_id, 1, .., config.cgroup)
\* and Runner::new(config.clone())
CliNewPool ==
    /\ cgroup_fs.active
    /\ cgroup_fs.cli = "command"
    /\ count' = 1
    /\ permits' = 1
    /\ pool_cgroup' = config_cgroup
    /\ pc' = [pc EXCEPT ![1] = "idle"]
    /\ cgroup_fs' = [cgroup_fs EXCEPT !.cli = "pool"]
    /\ UNCHANGED <<cliFrame, config_cgroup>>

\* the program starts with its configuration loaded, on a host whose cgroup
\* hierarchy is one of files
CliInitOn(files) ==
    /\ overflow_checks = FALSE
    /\ start_id = U32Of(0)
    /\ count = 0
    /\ pool_cgroup = FALSE
    /\ next_id = start_id
    /\ permits = count
    /\ waiters = <<>>
    /\ pc = [t \in Tasks |-> "cli"]
    /\ pending = [t \in Tasks |-> NoPending]
    /\ box = [t \in Tasks |-> NoBox]
    /\ detached = EmptyBag
    /\ acquired = <<>>
    /\ last = Event(0, "new", "Ok", NoCall)
    /\ config_cgroup \in BOOLEAN
    /\ fs = NoFiles
    /\ calls = 0
    /\ arg = <<>>
    /\ default_limits = DefaultLimits
    /\ sandbox_mounts = <<>>
    /\ languages = Languages
    /\ host_dirs = {}
    /\ user_limits = None
    /\ stream = NoStream
    /\ events = <<>>
    /\ session = NoSession
    /\ builder = NoBuilder
    /\ argv = <<>>
    /\ parser = NoParser
    /\ \E f \in files :
          cgroup_fs = [active |-> TRUE, cli |-> "start", configured |-> config_cgroup,
                       step |-> "", ret |-> None, before |-> f, files |-> f,
                       effects |-> <<>>]

CgroupInit == CliInitOn(CgroupFiles)

CgroupNext ==
    \/ CliStart
    \/ PrepareCheckControllers
    \/ PrepareReadControllers
    \/ PrepareCheckRoot
    \/ PrepareCreateInit
    \/ PrepareWriteProcs
    \/ PrepareWriteRootControl
    \/ PrepareCreateRoot
    \/ PrepareWriteRootSubtree
    \/ CliMatch

CgroupSpec == CgroupInit /\ [][CgroupNext]_vars

\* the hosts the whole program is run on: without cgroup v2, without the
\* memory controller, with a cgroup root that is ready and with none
CliFiles == {f \in CgroupFiles : ~f.init_dir /\ f.root_subtree /= "other"}

\* run_compile and run_execute acquire one box
CliAcquire == Started = 0 /\ AcquireCall(1)

\* run_compile, and run_execute for a compiled language: runner.compile
CliCompile == calls = 0 /\ RunnerCompile(1)

\* run_execute: runner.run
CliRun == calls <= 1 /\ last.op /= "run" /\ RunnerRun(1)

CliInit == CliInitOn(CliFiles)

CliNext ==
    \/ CliStart
    \/ PrepareCheckControllers
    \/ PrepareReadControllers
    \/ PrepareCheckRoot
    \/ PrepareCreateInit
    \/ PrepareWriteProcs
    \/ PrepareWriteRootControl
    \/ PrepareCreateRoot
    \/ PrepareWriteRootSubtree
    \/ CliMatch
    \/ CliNewPool
    \/ CliAcquire
    \/ NextId(1)
    \/ InitBox(1)
    \/ CliCompile
    \/ CliRun
    \/ Cleanup(1)
    \/ DropBox(1)
    \/ DetachedCleanup

CliSpec == CliInit /\ [][CliNext]_vars

(***************************************************************************)
(* A caller that calls the file operations of its box with one name.        *)
(***************************************************************************)
NameChars == {".", "/", "a"}

Names == UNION {[1..n -> NameChars] : n \in 0..MaxNameLen}

FileData == << <<"data">> >>

\* IsolateBox::file_path called by the owner of the box
FilePath(t) ==
    /\ pc[t] = "holding"
    /\ calls < MaxCalls
    /\ \E path \in {file_path(box[t], arg)} :
        Return(t, "file_path",
               Outcome(fs, IF path.ok THEN "Ok" ELSE path.err, NoCall,
                       [NoOut EXCEPT !.path = IF path.ok THEN Some(path.val) ELSE None]))

\* IsolateBox::sandbox_path called by the owner of the box
SandboxPath(t) ==
    /\ pc[t] = "holding"
    /\ calls < MaxCalls
    /\ \E path \in {sandbox_path(box[t], arg)} :
        Return(t, "sandbox_path",
               Outcome(fs, IF path.ok THEN "Ok" ELSE path.err, NoCall,
                       [NoOut EXCEPT !.path = IF path.ok THEN Some(path.val) ELSE None]))

\* IsolateBox::write_file called by the owner of the box
WriteFile(t) ==
    /\ pc[t] = "holding"
    /\ calls < MaxCalls
    /\ \E io_ok \in BOOLEAN :
       \E w \in {write_file(fs, box[t], arg, FileData, io_ok)} :
        Return(t, "write_file",
               Outcome(w.fs, IF w.res.ok THEN "Ok" ELSE w.res.err, NoCall, NoOut))

\* IsolateBox::read_file called by the owner of the box
ReadFile(t) ==
    /\ pc[t] = "holding"
    /\ calls < MaxCalls
    /\ \E r \in {read_file(fs, box[t], arg)} :
        Return(t, "read_file",
               Outcome(fs, IF r.ok THEN "Ok" ELSE r.err, NoCall,
                       [NoOut EXCEPT !.content = IF r.ok THEN Some(r.val) ELSE None]))

\* IsolateBox::file_exists called by the owner of the box
FileExists(t) ==
    /\ pc[t] = "holding"
    /\ calls < MaxCalls
    /\ \E r \in {file_exists(fs, box[t], arg)} :
        Return(t, "file_exists",
               Outcome(fs, IF r.ok THEN "Ok" ELSE r.err, NoCall,
                       [NoOut EXCEPT !.found = r.ok /\ r.val]))

PathInit ==
    /\ overflow_checks = FALSE
    /\ start_id = U32Of(0)
    /\ count = 0
    /\ pool_cgroup = FALSE
    /\ next_id = start_id
    /\ permits = count
    /\ waiters = <<>>
    /\ pc = [t \in Tasks |-> "idle"]
    /\ pending = [t \in Tasks |-> NoPending]
    /\ box = [t \in Tasks |-> NoBox]
    /\ detached = EmptyBag
    /\ acquired = <<>>
    /\ last = Event(0, "new", "Ok", NoCall)
    /\ config_cgroup = FALSE
    /\ default_limits = DefaultLimits
    /\ sandbox_mounts = <<>>
    /\ languages = Languages
    /\ host_dirs = {}
    /\ user_limits = None
    /\ stream = NoStream
    /\ events = <<>>
    /\ session = NoSession
    /\ builder = NoBuilder
    /\ argv = <<>>
    /\ parser = NoParser
    /\ cgroup_fs = NoCgroups
    /\ fs = NoFiles
    /\ calls = 0
    /\ arg \in Names

PathNext ==
    \/ DirectInit(1)
    \/ InitBox(1)
    \/ FilePath(1)
    \/ SandboxPath(1)
    \/ WriteFile(1)
    \/ ReadFile(1)
    \/ FileExists(1)

PathSpec == PathInit /\ [][PathNext]_vars

(***************************************************************************)
(* Properties of the pool and of the box lifecycle.                         *)
(***************************************************************************)
\* tasks whose acquisition or box holds a permit of the pool
PermitHolders ==
    {t \in Tasks : \/ pc[t] = "permit"
                   \/ (pc[t] = "init" /\ pending[t].permit)
                   \/ (box[t].exists /\ box[t].permit)}

\* t made the step that last records, as operation op
Did(t, op) == last' /= last /\ last'.op = op /\ last'.task = t

\* C1: under every interleaving of acquire calls and box drops, the boxes
\* that hold a permit (returned and not yet dropped, or still in Init)
\* number at most count.
C1_AtMostCountOutstanding ==
    /\ Cardinality(PermitHolders) <= count
    /\ Cardinality(PermitHolders) + permits = count

C1_Witness ==
    /\ count = MaxCount
    /\ Cardinality({t \in Tasks : box[t].exists /\ box[t].permit}) = count

\* C2: no two boxes acquired from the pool and outstanding at the same time
\* have the same box id.
C2_UniqueOutstandingIds ==
    \A t1, t2 \in Tasks :
        (t1 /= t2 /\ box[t1].exists /\ box[t2].exists /\ box[t1].permit /\ box[t2].permit)
            => box[t1].id /= box[t2].id

\* C3: every id acquire passes to Init lies in [start_id, start_id + count),
\* and the k-th acquisition (k = 0, 1, 2, ...) uses start_id + (k mod count).
C3_RoundRobinIds ==
    \A k \in 1..Len(acquired) :
        LET r == (k - 1) % count
        IN  /\ ~acquired[k].panic
            /\ ~AddOverflows(start_id, U32Of(r))
            /\ acquired[k].id = WrappingAdd(start_id, U32Of(r))
            /\ ~U32Lt(acquired[k].id, start_id)

\* C4 as stated: cleanup() leaves available() unchanged, and dropping an
\* acquired box increases available() by one.
C4_DropAddsOneAvailable ==
    [][\A t \in Tasks :
        /\ Did(t, "cleanup") => available' = available
        /\ (Did(t, "drop") /\ box[t].permit) => available' = available + 1]_vars

\* C4, amended: cleanup() leaves available() and the box's permit unchanged;
\* dropping an acquired box releases its permit: available() increases by
\* one when no acquisition is waiting, else the permit passes to the
\* longest-waiting acquisition and available() is unchanged.
C4_PermitReleasedOnDrop ==
    [][\A t \in Tasks :
        /\ Did(t, "cleanup") =>
              /\ available' = available
              /\ box'[t].permit = box[t].permit
              /\ waiters' = waiters
        /\ (Did(t, "drop") /\ box[t].permit) =>
              IF waiters = <<>>
              THEN available' = available + 1
              ELSE /\ available' = available
                   /\ pc[Head(waiters)] = "waiting"
                   /\ pc'[Head(waiters)] = "permit"
                   /\ waiters' = Tail(waiters)]_vars

C4_Witness ==
    /\ last.op = "drop"
    /\ count = 1
    /\ permits = 0
    /\ \E t \in Tasks : pc[t] = "permit"

\* an acquire call suspends when no permit is free, and is admitted at once
\* when one is; a dropped permit admits the longest-waiting acquisition
C5_Admission ==
    [][\A t \in Tasks :
        /\ (Did(t, "acquire") /\ pc[t] = "idle") =>
              IF permits = 0
              THEN pc'[t] = "waiting" /\ last'.ret = "Suspended"
              ELSE pc'[t] = "permit" /\ last'.ret = "Admitted"
        /\ (pc[t] = "waiting" /\ pc'[t] /= "waiting") =>
              /\ pc'[t] = "permit"
              /\ t = Head(waiters)
              /\ last'.op \in {"drop", "init", "acquire"}
        /\ (Did(t, "drop") /\ box[t].permit /\ waiters /= <<>>) =>
              pc'[Head(waiters)] = "permit"]_vars

C6_CleanupOnce ==
    [][\A t \in Tasks :
        /\ (box[t].exists /\ box'[t].exists /\ ~box[t].initialized)
              => ~box'[t].initialized
        /\ box'[t].exists => box'[t].cleaned <= 1
        /\ Did(t, "cleanup") =>
              IF box[t].initialized
              THEN /\ last'.call = CleanupArgs(box[t].id, box[t].cgroup)
                   /\ (last'.ret = "Ok") = ~box'[t].initialized
                   /\ last'.ret \in {"Ok", "CleanupFailed", "SpawnFailed"}
              ELSE /\ last'.ret = "Ok"
                   /\ last'.call = NoCall
                   /\ box' = box]_vars

C6_Witness ==
    /\ last.op = "cleanup"
    /\ last.call = NoCall
    /\ box[last.task].cleaned = 1

\* C7: dropping a box issues the warning and the detached best-effort
\* supervisor Cleanup if and only if initialized is still true at drop time;
\* a box whose explicit cleanup() succeeded triggers no supervisor call when
\* dropped.
C7_DropCleansIffInitialized ==
    [][/\ \A t \in Tasks :
            Did(t, "drop") =>
              /\ last'.call = NoCall
              /\ IF box[t].initialized
                 THEN /\ last'.ret = "Warned"
                      /\ detached' = detached (+)
                            SetToBag({[id |-> box[t].id, cgroup |-> box[t].cgroup]})
                 ELSE /\ last'.ret = "Silent"
                      /\ detached' = detached
              /\ box[t].cleaned >= 1 => detached' = detached
       /\ (last' /= last /\ last'.op = "detached_cleanup") =>
              \E w \in BagToSet(detached) :
                  /\ last'.call = CleanupArgs(w.id, w.cgroup)
                  /\ detached' = detached (-) SetToBag({w})
       /\ detached' /= detached =>
              (last'.op \in {"drop", "detached_cleanup"})]_vars

C7_Witness ==
    /\ last.op = "drop"
    /\ last.ret = "Silent"
    /\ BagCardinality(detached) >= 1

(***************************************************************************)
(* Properties of the Runner and of the file operations.                     *)
(***************************************************************************)
\* the handlers that run a program in the box
RunOps == {"compile", "run", "run_interpreted", "run_interactive"}

\* C8: for every box, --cg is used consistently over the box lifetime: it
\* is on every run invocation (compile, run, run_interactive) made against
\* the box, and on its cleanup invocation, if and only if it was on the
\* box's init invocation.
C8_CgroupFlagConsistent ==
    (/\ last.op \in RunOps \cup {"cleanup"}
     /\ last.call /= NoCall
     /\ last.ret /= "SpawnFailed"
     /\ box[last.task].exists)
    => (HasFlag(last.call, "--cg") <=> HasFlag(box[last.task].init_args, "--cg"))

\* the name is rejected: it contains ".." or starts with "/"
Traversal(name) ==
    \/ \E i \in 1..(Len(name) - 1) : SubSeq(name, i, i + 1) = <<".", ".">>
    \/ (name /= <<>> /\ Head(name) = "/")

PathOps == {"file_path", "sandbox_path", "write_file", "read_file", "file_exists"}

\* C9: file_path, sandbox_path, write_file, read_file and file_exists return
\* InvalidPath exactly when the name contains ".." or starts with "/", and
\* then touch no file; every other name projects to the host path
\* <box_dir>/box/<name> and to the sandbox path /box/<name>, which is where
\* write_file writes, read_file reads and file_exists looks.
C9_PathValidation ==
    [][\A t \in Tasks :
        (calls' = calls + 1 /\ last'.task = t /\ last'.op \in PathOps) =>
          LET host == box[t].box_path \o <<"/", "box", "/">> \o arg
          IN  /\ last'.ret = "InvalidPath" <=> Traversal(arg)
              /\ Traversal(arg) => fs' = fs
              /\ (last'.op = "file_path" /\ ~Traversal(arg)) =>
                    (last'.ret = "Ok" /\ last'.out.path = Some(host))
              /\ (last'.op = "sandbox_path" /\ ~Traversal(arg)) =>
                    /\ last'.ret = "Ok"
                    /\ last'.out.path = Some(<<"/", "box", "/">> \o arg)
              /\ last'.op = "write_file" =>
                    IF last'.ret = "Ok"
                    THEN /\ DOMAIN fs' = DOMAIN fs \cup {host}
                         /\ fs'[host] = FileData
                         /\ \A q \in DOMAIN fs \ {host} : fs'[q] = fs[q]
                    ELSE fs' = fs
              /\ (last'.op = "read_file" /\ last'.ret = "Ok") =>
                    (host \in DOMAIN fs /\ last'.out.content = Some(fs[host]))
              /\ (last'.op = "file_exists" /\ ~Traversal(arg)) =>
                    /\ last'.ret = "Ok"
                    /\ host \in DOMAIN fs => last'.out.found
              /\ last'.op \in {"file_path", "sandbox_path", "read_file", "file_exists"}
                    => fs' = fs]_vars

C9_Witness ==
    /\ last.op = "read_file"
    /\ last.ret = "InvalidPath"
    /\ arg = <<"a", ".", ".">>
    /\ fs = NoFiles

\* C10: whenever a supervisor invocation made by run_batch or
\* run_with_output writes no meta file, the call returns CommandFailed with
\* the supervisor's stderr and no ExecutionResult, whatever earlier
\* operations on the box left behind.
C10_NoMetaIsCommandFailed ==
    (/\ last.op \in {"compile", "run", "run_interpreted"}
     /\ last.call /= NoCall
     /\ last.ret /= "SpawnFailed"
     /\ ~last.out.wrote_meta)
    => /\ last.ret = "CommandFailed"
       /\ last.out.message = Some(SupervisorStderr)
       /\ last.out.result = None

(***************************************************************************)
(* The Runner.                                                              *)
(***************************************************************************)
\* C11: compile_and_run starts the run step only after the compile step
\* returned a CompileResult, and exactly when that result reports success:
\* with success false it returns the CompileResult and no run result without
\* invoking the supervisor for a run; an error of the compile step is
\* returned as Compile (no run was started) and an error of the run step as
\* Execute.
C11_RunOnlyAfterSuccessfulCompile ==
    last.op = "compile_and_run" =>
        LET compiled == last.out.compile_result
        IN  /\ last.ret \in {"Ok", "Compile", "Execute"}
            /\ last.ret = "Compile" =>
                    /\ compiled = None /\ last.out.result = None
                    /\ last.call = NoCall /\ last.out.error /= ""
            /\ last.ret = "Ok" =>
                    /\ compiled /= None
                    /\ last.out.result /= None <=> compiled[1].success
                    /\ last.call /= NoCall <=> compiled[1].success
            /\ last.ret = "Execute" =>
                    /\ compiled /= None /\ compiled[1].success
                    /\ last.out.result = None /\ last.out.error /= ""
            /\ last.call /= NoCall =>
                    /\ last.out.compile_call /= NoCall
                    /\ compiled /= None /\ compiled[1].success

\* a compile_and_run whose compiler ran and failed: no run result
C11_Witness ==
    /\ last.op = "compile_and_run" /\ last.ret = "Ok"
    /\ last.out.compile_call /= NoCall
    /\ last.out.compile_result /= None
    /\ ~last.out.compile_result[1].success
    /\ last.out.result = None

\* the meta file of the box a task owns
MetaPath(t) == file_path(box[t], <<"meta", ".", "txt">>).val

\* the exit code the meta file of the box holds after the call
ReportedExitCode(t) == exit_code(parse(fs[MetaPath(t)]))

LanguageNamed(name) == CHOOSE lang \in languages : lang.name = name

\* C13: compile on a language without a compile step returns NotCompiled
\* and has no effect: no file of the box changes (the source is not
\* staged) and the supervisor is not invoked.
C13_NotCompiledHasNoEffect ==
    [][(/\ calls' = calls + 1
        /\ last'.op = "compile"
        /\ LanguageNamed(last'.out.lang).compile = None)
       => /\ last'.ret = "NotCompiled"
          /\ last'.call = NoCall
          /\ fs' = fs]_vars

\* compile was called for the interpreted language
C13_Witness ==
    /\ last.op = "compile" /\ last.out.lang = Python3.name
    /\ last.ret = "NotCompiled"

\* the file the box of the task holds under the name, if any
InBox(f, t, name) == PathExists(f, Join(Join(box[t].box_path, <<"box">>), name))

\* the file run needs: the compile step's output_name, or source_name()
\* for a language without a compile step
Required(lang) ==
    IF lang.compile /= None THEN lang.compile[1].output_name ELSE source_name(lang)

\* C14: run returns NotStarted without invoking the supervisor when the box
\* does not hold the compile step's output_name (compiled language) or
\* source_name() (interpreted language); in particular a run that directly
\* follows a successful init returns NotStarted.
C14_RunWithoutProgramIsNotStarted ==
    [][\A t \in Tasks :
        (/\ calls' = calls + 1
         /\ last'.task = t /\ last'.op = "run"
         /\ \/ ~InBox(fs, t, Required(LanguageNamed(last'.out.lang)))
            \/ last.op = "init" /\ last.ret = "Ok")
        => /\ last'.ret = "NotStarted"
           /\ last'.call = NoCall
           /\ fs' = fs]_vars

\* a run for the compiled language on a box that a run_interpreted has used
C14_Witness ==
    /\ last.op = "run" /\ last.ret = "NotStarted"
    /\ last.out.lang = Cpp.name
    /\ InBox(fs, last.task, source_name(Python3))

\* the mounts a run passes to the supervisor for the language
PassedMounts(lang) == sandbox_mounts \o lang.run.mounts

\* a mount that is not optional and whose source the host does not have
MissingMount(m) == ~m.optional /\ m.source \notin host_dirs

\* C15: run never invokes the supervisor with a missing non-optional mount:
\* when a non-optional mount of the configuration's global list or of the
\* language's run mounts has a source that does not exist, run makes no
\* supervisor call.
C15_NoRunWithMissingMount ==
    (/\ last.op = "run"
     /\ \E i \in DOMAIN PassedMounts(LanguageNamed(last.out.lang)) :
            MissingMount(PassedMounts(LanguageNamed(last.out.lang))[i]))
    => last.call = NoCall

(***************************************************************************)
(* Resource limits.                                                         *)
(***************************************************************************)
\* the flag that carries each limit
LimitFlag ==
    [time_limit |-> "--time=", wall_time_limit |-> "--wall-time=",
     memory_limit |-> IF config_cgroup THEN "--cg-mem=" ELSE "--mem=",
     stack_limit |-> "--stack=", max_processes |-> "--processes=",
     max_output |-> "--fsize=", max_open_files |-> "--open-files=",
     extra_time |-> "--extra-time="]

\* the limits that are held in seconds
SecondsFields == {"time_limit", "wall_time_limit", "extra_time"}

\* what the supervisor is given for a limit: nothing, or the one value
PassedFor(f, limit) ==
    IF limit = None THEN None
    ELSE Some(<<IF f \in SecondsFields THEN F64Text(limit[1]) ELSE ToString(limit[1])>>)

\* the value of the highest layer that holds the field; a layer is an
\* Option of limits
RECURSIVE Layered(_, _)
Layered(f, layers) ==
    IF layers = <<>> THEN None
    ELSE IF Head(layers) /= None /\ Head(layers)[1][f] /= None THEN Head(layers)[1][f]
    ELSE Layered(f, Tail(layers))

\* C16: the limits run, run_interpreted and run_interactive pass to the
\* supervisor hold, for every field, the user's value if present, else the
\* language's run limit if present, else the value of default_limits; the
\* three operations pass the same limits for the same inputs.
C16_RunLimitsLayered ==
    (last.op \in {"run", "run_interpreted", "run_interactive"} /\ last.call /= NoCall)
    => LET Passes(opts, layers) ==
                \A f \in LimitFields :
                    OptValue(opts, LimitFlag[f]) = PassedFor(f, Layered(f, layers))
       IN  Passes(Options(last.call),
                  <<user_limits, LanguageNamed(last.out.lang).run.limits,
                    Some(default_limits)>>)

\* a run whose time limit comes from the language and whose other limits
\* come from the user or from default_limits
C16_Witness ==
    /\ last.op = "run" /\ last.call /= NoCall
    /\ user_limits /= None /\ user_limits[1].time_limit = None
    /\ user_limits[1].memory_limit /= None
    /\ LanguageNamed(last.out.lang).run.limits /= None
    /\ LanguageNamed(last.out.lang).run.limits[1].time_limit /= None
    /\ default_limits.time_limit /= None

\* the limits the last call returned
Returned == last.out.result[1]

\* C17: with_overrides yields, for each of the eight fields, the override's
\* value when present and otherwise the base's; merging a base with the
\* record whose fields are all absent returns the base unchanged.
C17_OverrideFieldwise ==
    last.op = "with_overrides" =>
        /\ DOMAIN Returned = LimitFields
        /\ \A f \in LimitFields :
                Returned[f] = IF user_limits[1][f] /= None THEN user_limits[1][f]
                              ELSE default_limits[f]
        /\ (\A f \in LimitFields : user_limits[1][f] = None) => Returned = default_limits

\* a merge whose override holds some fields and not others, over a base
\* that holds a field the override lacks and lacks a field the override holds
C17_Witness ==
    /\ last.op = "with_overrides"
    /\ \E f, g \in LimitFields :
        /\ user_limits[1][f] /= None /\ default_limits[f] = None
        /\ user_limits[1][g] = None /\ default_limits[g] /= None
        /\ Returned[f] = user_limits[1][f] /\ Returned[g] = default_limits[g]

\* C18: ResourceLimits::new() has every field None, so
\* ResourceLimits::new().with_time_limit(t) as the overriding layer changes
\* only the time limit of the layers below.
C18_NewOverridesOnlyTime ==
    /\ last.op = "ResourceLimits::new" => \A f \in LimitFields : Returned[f] = None
    /\ last.op = "override_time_limit" =>
            \A f \in LimitFields \ {"time_limit"} : Returned[f] = default_limits[f]

\* the compile defaults as five limits: 30 s, 60 s, 512 MB, 10 processes,
\* 64 MB of output
FiveCompileDefaults ==
    [time_limit |-> Some(300), wall_time_limit |-> Some(600),
     memory_limit |-> Some(512 * 1024), stack_limit |-> None,
     max_processes |-> Some(10), max_output |-> Some(64 * 1024),
     max_open_files |-> None, extra_time |-> None]

\* the five compile defaults and, for the other three limits, the values of
\* ResourceLimits::default(): 256 MB of stack, 64 open files, 0.5 s extra
EightCompileDefaults ==
    [FiveCompileDefaults EXCEPT !.stack_limit = Some(256 * 1024),
                                !.max_open_files = Some(64),
                                !.extra_time = Some(5)]

\* the limit flags of a compile call are those of the defaults overridden
\* field by field by the language's compile limits and then by the user's
CompilePasses(defaults) ==
    (last.op = "compile" /\ last.call /= NoCall)
    => LET Passes(opts, layers) ==
                \A f \in LimitFields :
                    OptValue(opts, LimitFlag[f]) = PassedFor(f, Layered(f, layers))
       IN  Passes(Options(last.call),
                  <<user_limits, LanguageNamed(last.out.lang).compile[1].limits,
                    Some(defaults)>>)

\* C19 as stated: with no language compile limits and no user limits compile
\* passes exactly cpu 30 s, wall 60 s, memory 512 MB, 10 processes and 64 MB
\* of output and no other limit flag; language compile limits and then user
\* limits override these field by field.
C19_FiveCompileDefaults == CompilePasses(FiveCompileDefaults)

\* C19, amended: with no language compile limits and no user limits compile
\* passes cpu 30 s, wall 60 s, memory 512 MB, 10 processes, 64 MB of output
\* and also the stack, open-files and extra-time limits of
\* ResourceLimits::default(); language compile limits and then user limits
\* override these eight field by field.
C19_EightCompileDefaults == CompilePasses(EightCompileDefaults)

\* a compile with no language compile limits and no user limits
C19_Witness ==
    /\ last.op = "compile" /\ last.call /= NoCall
    /\ user_limits = None
    /\ LanguageNamed(last.out.lang).compile[1].limits = None
    /\ FlagValue(last.call, "--time=") = Some(<<"30">>)
    /\ FlagValue(last.call, "--stack=") = Some(<<"262144">>)

(***************************************************************************)
(* The event stream.                                                        *)
(***************************************************************************)
\* C20: once the task has recorded stdout as closed and its poll shows that
\* the child has exited (leaving its meta file), the task sends exactly one
\* Exited event, holding the result parsed from the meta file, as the last
\* event of the stream, and stops.
C20_ExitedIsLastEvent ==
    (/\ stream.active /\ stream.stdout_closed
     /\ stream.polled = "exited" /\ InteractiveMeta \in DOMAIN fs)
    => /\ stream.task = "stopped"
       /\ events /= <<>>
       /\ events[Len(events)] = Exited(to_execution_result(parse(fs[InteractiveMeta])))
       /\ Cardinality({i \in DOMAIN events : events[i].kind = "Exited"}) = 1

\* C21: once the child has exited, its stdout has reached end of file and
\* every handle is dropped, the task eventually stops.
C21_TaskEventuallyStops ==
    (stream.active /\ stream.exited /\ stream.eof /\ ~stream.handles)
        ~> (stream.task = "stopped")

\* the writes the handles have submitted, in submission order
Submitted == [i \in 1..stream.submitted |-> i]

\* C22: what the child has received on stdin is a prefix of the writes
\* submitted through the handles, in submission order (each at most once,
\* unmodified), and while a write is queued no step reads stdout.
C22_WritesInOrderBeforeReads ==
    /\ [](stream.active => IsPrefix(stream.received, Submitted))
    /\ [][stream.active /\ stream.queue /= <<>>
            => /\ events' = events
               /\ stream'.stdout_closed = stream.stdout_closed
               /\ Len(stream'.pipe) >= Len(stream.pipe)]_vars

\* a write is queued while stdout is readable, after an earlier write was
\* delivered and a chunk was read
C22_Witness ==
    /\ stream.active /\ stream.task = "running"
    /\ stream.queue /= <<>> /\ stream.pipe /= <<>>
    /\ stream.received = <<1>> /\ events /= <<>>

(***************************************************************************)
(* The interactive session.                                                 *)
(***************************************************************************)
\* a caller's operation returns in this step
OpReturns(op) == session.active /\ session'.tick /= session.tick /\ session'.ret.op = op

\* C23: when wait has returned and the child has exited leaving its meta
\* file, wait returned Ok with the result parsed from that file, whatever
\* the caller did with the session before.
C23_WaitReturnsParsedMeta ==
    (/\ session.active /\ session.ret.op = "wait"
     /\ session.exited /\ InteractiveMeta \in DOMAIN fs)
    => session.ret.res = Ok(to_execution_result(parse(fs[InteractiveMeta])))

\* C24: the lines read_line has returned are the first lines the child
\* wrote, in order and without their line ends, and read_line returns the
\* end of the stream only when it has returned every line the child wrote.
C24_ReadLineLosesNothing ==
    /\ [](session.active => IsPrefix(session.got, session.wrote))
    /\ [][OpReturns("read_line") /\ session'.ret.res = Ok(None)
            => session.got = session.wrote]_vars

\* write or write_line returns in this step
WriteReturns == OpReturns("write") \/ OpReturns("write_line")

\* C25 as stated: write and write_line return an error and deliver nothing
\* whenever the session is marked terminated, stdin was closed or the child
\* has exited, and the terminated flag never goes back to false.
C25_WritesFail ==
    /\ [][WriteReturns /\ (session.terminated \/ ~session.stdin \/ session.exited)
            => /\ ~session'.ret.res.ok
               /\ session'.delivered = session.delivered]_vars
    /\ [][session.active /\ session.terminated => session'.terminated]_vars

\* C25 amended: as above, but a write to a child that has exited is only
\* refused when it carries at least one byte.
C25_WritesOfBytesFail ==
    /\ [][WriteReturns /\ (\/ session.terminated
                           \/ ~session.stdin
                           \/ session.exited /\ session'.ret.data /= <<>>)
            => /\ ~session'.ret.res.ok
               /\ session'.delivered = session.delivered]_vars
    /\ [][session.active /\ session.terminated => session'.terminated]_vars

\* a write_line was refused on a session that is marked terminated and
\* whose stdin is still open, after an earlier write was delivered
C25_Witness ==
    /\ session.active /\ session.ret.op = "write_line" /\ ~session.ret.res.ok
    /\ session.terminated /\ session.stdin /\ ~session.consumed
    /\ session.delivered /= <<>>

\* C26: a wait_timeout that was awaiting the child returns what wait returns
\* if the child has exited; if the deadline passes first it returns the
\* timed-out error, the session is consumed and the child is neither killed
\* nor otherwise made to exit.  On a session marked terminated it returns
\* wait's error at once.
C26_WaitTimeoutLeavesChildRunning ==
    [][OpReturns("wait_timeout")
        => /\ session'.consumed
           /\ IF session.waiting = "wait_timeout"
              THEN IF session.exited
                   THEN session'.ret.res = process_wait(fs, InteractiveMeta)
                   ELSE /\ session'.ret.res = Err("TimedOut")
                        /\ session'.killed = session.killed
                        /\ session'.exited = session.exited
              ELSE session'.ret.res = wait(session.terminated, fs, InteractiveMeta)]_vars

\* wait_timeout timed out, and the child, never killed, later exited on
\* its wall-time limit
C26_Witness ==
    /\ session.active /\ session.consumed
    /\ session.ret.op = "wait_timeout" /\ session.ret.res = Err("TimedOut")
    /\ ~session.killed /\ session.exited
    /\ InteractiveMeta \in DOMAIN fs /\ fs[InteractiveMeta] = MetaTimeout

(***************************************************************************)
(* The argument vector of the supervisor.                                   *)
(***************************************************************************)
\* a vector was built for the action
Built(action) == builder.active /\ builder.built /\ builder.cmd.action = action

\* index of the first "--" of a vector, one past its end if it has none
Separator(args) ==
    LET seps == {i \in 1..Len(args) : args[i] = <<"--">>}
    IN  IF seps = {} THEN Len(args) + 1 ELSE CHOOSE i \in seps : \A j \in seps : i <= j

\* how many arguments before the separator start with the prefix
FlagCount(args, prefix) ==
    Cardinality({i \in 1..(Separator(args) - 1) : args[i][1] = prefix})

\* C27: the vector built for Init or Cleanup is the supervisor, the box id,
\* --cg under cgroup mode, and --init or --cleanup: nothing else, whatever
\* was configured on the builder.
C27_InitCleanupIgnoreOptions ==
    \A a \in {"Init", "Cleanup"} :
        Built(a) =>
            argv = << <<"isolate">>, <<"--box-id=", "0">> >>
                   \o (IF builder.cmd.cgroup THEN << <<"--cg">> >> ELSE <<>>)
                   \o << <<IF a = "Init" THEN "--init" ELSE "--cleanup">> >>

\* a vector was built for Init under cgroup mode on a builder that holds
\* limits, a mount, an environment variable, I/O paths, a working directory
\* and a command
C27_Witness ==
    /\ Built("Init") /\ builder.cmd.cgroup
    /\ builder.cmd.limits = LimitsOf(LimitFields, 1)
    /\ builder.cmd.mounts /= <<>> /\ builder.cmd.env /= <<>>
    /\ builder.cmd.meta_file /= None /\ builder.cmd.stdin /= None
    /\ builder.cmd.stdout /= None /\ builder.cmd.stderr /= None
    /\ builder.cmd.working_dir /= None /\ builder.cmd.command = UserCommand

\* the prefixes of the flag of each ResourceLimits field
LimitPrefixes ==
    [time_limit |-> {"--time="}, wall_time_limit |-> {"--wall-time="},
     extra_time |-> {"--extra-time="}, memory_limit |-> {"--mem=", "--cg-mem="},
     stack_limit |-> {"--stack="}, max_processes |-> {"--processes="},
     max_output |-> {"--fsize="}, max_open_files |-> {"--open-files="}]

\* how many flags of the vector belong to the field
LimitFlagCount(args, f) ==
    Cardinality({i \in 1..(Separator(args) - 1) : args[i][1] \in LimitPrefixes[f]})

\* C28: a Run vector holds exactly one flag with the prefix of a field that
\* is present in the limits and none with the prefix of a field that is
\* absent.
C28_OneFlagPerPresentLimit ==
    Built("Run") =>
        \A f \in LimitFields :
            LimitFlagCount(argv, f) = IF builder.cmd.limits[f] /= None THEN 1 ELSE 0

\* a Run vector was built from limits with a single field present, and the
\* user command holds an argument that looks like a limit flag
C28_Witness ==
    /\ Built("Run") /\ builder.cmd.limits = LimitsOf({"stack_limit"}, 1)
    /\ builder.cmd.command = UserCommand
    /\ <<"--stack=", "15">> \in Options(argv)

\* C29: in a Run vector a present memory limit is passed as --cg-mem=<k>
\* under cgroup mode and as --mem=<k> otherwise, never as both, and
\* --cg-mem only appears in a vector that holds --cg.
C29_MemoryFlagFollowsCgroup ==
    Built("Run") =>
        /\ builder.cmd.limits.memory_limit /= None =>
            /\ FlagCount(argv, "--cg-mem=") = IF builder.cmd.cgroup THEN 1 ELSE 0
            /\ FlagCount(argv, "--mem=") = IF builder.cmd.cgroup THEN 0 ELSE 1
            /\ <<IF builder.cmd.cgroup THEN "--cg-mem=" ELSE "--mem=",
                 ToString(builder.cmd.limits.memory_limit[1])>> \in Options(argv)
        /\ FlagCount(argv, "--cg-mem=") > 0 => <<"--cg">> \in Options(argv)

\* a Run vector was built under cgroup mode with a memory limit
C29_Witness ==
    /\ Built("Run") /\ builder.cmd.cgroup
    /\ builder.cmd.limits.memory_limit = Some(15)
    /\ <<"--cg-mem=", "15">> \in Options(argv)

\* the group of a flag of a Run vector, by its prefix
FlagGroup(flag) ==
    CASE flag[1] \in UNION {LimitPrefixes[f] : f \in LimitFields} -> 1
      [] flag[1] = "--dir=" -> 2
      [] flag[1] \in {"--full-env", "--env="} -> 3
      [] flag[1] = "--meta=" -> 4
      [] flag[1] = "--stdin=" -> 5
      [] flag[1] = "--stdout=" -> 6
      [] flag[1] = "--stderr=" -> 7
      [] flag[1] = "--chdir=" -> 8
      [] OTHER -> 0

\* C30: a Run vector starts with the supervisor, the box id, --cg under
\* cgroup mode and --run; its flags up to the first "--" are limit, mount,
\* environment, --meta, --stdin, --stdout, --stderr and --chdir flags in
\* that order of groups; what follows the first "--" is the user command.
C30_RunVectorShape ==
    Built("Run") =>
        LET head == IF builder.cmd.cgroup THEN 4 ELSE 3
            sep == Separator(argv)
        IN  /\ SubSeq(argv, 1, head) =
                    << <<"isolate">>, <<"--box-id=", "0">> >>
                    \o (IF builder.cmd.cgroup THEN << <<"--cg">> >> ELSE <<>>)
                    \o << <<"--run">> >>
            /\ head < sep /\ sep <= Len(argv)
            /\ \A i \in (head + 1)..(sep - 1) : FlagGroup(argv[i]) /= 0
            /\ \A i, j \in (head + 1)..(sep - 1) :
                    i < j => FlagGroup(argv[i]) <= FlagGroup(argv[j])
            /\ SubSeq(argv, sep + 1, Len(argv)) = builder.cmd.command

\* a Run vector was built with a flag of every group and with a user
\* command that holds "--" and arguments that look like flags
C30_Witness ==
    /\ Built("Run") /\ builder.cmd.command = UserCommand
    /\ {FlagGroup(argv[i]) : i \in 1..(Separator(argv) - 1)} = 0..8
    /\ Len(argv) = Separator(argv) + Len(UserCommand)

(***************************************************************************)
(* Failures of the supervisor inside acquire() and cleanup(), and the       *)
(* arithmetic of the box id.                                                *)
(***************************************************************************)

\* the step in which the Init of t's acquisition fails
InitOfAcquireFails(t) == pc[t] = "init" /\ pending[t].permit /\ pc'[t] = "idle"

\* C37 as stated: when Init fails inside acquire(), the error is returned,
\* the permit of that acquisition is released so that available() goes back
\* up by one, and the id counter is not rolled back.
C37_FailedInitRestoresAvailable ==
    [][\A t \in Tasks :
        InitOfAcquireFails(t) =>
            /\ last' = Event(t, "init", last'.ret, InitArgs(pending[t].id, pending[t].cgroup))
            /\ last'.ret \in {"SpawnFailed", "InitFailed"}
            /\ box' = box
            /\ available' = available + 1
            /\ next_id' = next_id
            /\ acquired' = acquired]_vars

\* C37, amended: when Init fails inside acquire(), the error is returned, no
\* box is handed out, and the permit of that acquisition is released:
\* available() goes back up by one when no acquisition is waiting, else the
\* permit passes to the longest-waiting acquisition; the id counter is not
\* rolled back, so the next acquisition uses the next id.
C37_FailedInitReleasesPermit ==
    [][\A t \in Tasks :
        InitOfAcquireFails(t) =>
            /\ last' = Event(t, "init", last'.ret, InitArgs(pending[t].id, pending[t].cgroup))
            /\ last'.ret \in {"SpawnFailed", "InitFailed"}
            /\ box' = box
            /\ t \notin PermitHolders'
            /\ IF waiters = <<>>
               THEN available' = available + 1 /\ waiters' = waiters
               ELSE /\ available' = available
                    /\ pc'[Head(waiters)] = "permit"
                    /\ waiters' = Tail(waiters)
            /\ Cardinality(PermitHolders') + permits' = count
            /\ next_id' = next_id
            /\ acquired' = acquired]_vars

C37_Witness ==
    /\ last.op = "init"
    /\ last.ret \in {"SpawnFailed", "InitFailed"}
    /\ pc[last.task] = "idle"
    /\ permits = count
    /\ count >= 1
    /\ Len(acquired) >= 1
    /\ next_id /= start_id

\* the step in which t's cleanup() calls the supervisor and the call fails
CleanupFails(t) ==
    /\ pc[t] = "holding"
    /\ last' /= last
    /\ last'.op = "cleanup"
    /\ last'.task = t
    /\ last'.ret /= "Ok"

\* C38: when the supervisor's Cleanup fails (it cannot be started, or exits
\* non-zero), cleanup() returns the error and leaves the box unchanged with
\* initialized still true; the next cleanup() of that box calls the
\* supervisor again, and dropping it still starts the best-effort cleanup.
C38_FailedCleanupKeepsInitialized ==
    [][\A t \in Tasks :
        /\ CleanupFails(t) =>
              /\ last'.ret \in {"SpawnFailed", "CleanupFailed"}
              /\ last'.call = CleanupArgs(box[t].id, box[t].cgroup)
              /\ box' = box
              /\ box'[t].initialized
              /\ fs' = fs
              /\ pc' = pc
              /\ permits' = permits
        /\ (last.op = "cleanup" /\ last.task = t /\ last.ret /= "Ok" /\ box[t].exists) =>
              /\ box[t].initialized
              /\ (pc'[t] = pc[t] /\ (last' /= last \/ box' /= box)
                    /\ last'.op = "cleanup" /\ last'.task = t) =>
                    last'.call = CleanupArgs(box[t].id, box[t].cgroup)
              /\ Did(t, "drop") =>
                    /\ last'.ret = "Warned"
                    /\ detached' = detached (+)
                          SetToBag({[id |-> box[t].id, cgroup |-> box[t].cgroup]})]_vars

C38_Witness ==
    /\ last.op = "cleanup"
    /\ last.ret \in {"SpawnFailed", "CleanupFailed"}
    /\ box[last.task].exists
    /\ box[last.task].initialized
    /\ box[last.task].cleaned = 0

\* C40: for every start_id and every count > 0 the id computation of
\* acquire(), start_id + (counter - start_id) % count, neither underflows
\* nor overflows, whatever the number of acquisitions already made.
C40_IdArithmeticInRange ==
    count > 0 =>
        \A t \in Tasks :
            pc[t] = "permit" =>
                /\ ~IdUnderflows(next_id)
                /\ ~IdOverflows(next_id)

(***************************************************************************)
(* Properties of the meta file parser.                                      *)
(***************************************************************************)

\* s without its leading and trailing whitespace
Trimmed(s) ==
    LET keep == {i \in 1..Len(s) : s[i] \notin Whitespace}
    IN  IF keep = {} THEN <<>>
        ELSE SubSeq(s, CHOOSE i \in keep : \A j \in keep : i <= j,
                       CHOOSE i \in keep : \A j \in keep : j <= i)

\* line has a colon
HasColon(line) == \E i \in 1..Len(line) : line[i] = ":"

\* the text of line before its first colon, and the text after it
BeforeColon(line) ==
    SubSeq(line, 1, (CHOOSE i \in 1..Len(line) :
                        line[i] = ":" /\ \A j \in 1..(i - 1) : line[j] /= ":") - 1)

AfterColon(line) == SubSeq(line, Len(BeforeColon(line)) + 2, Len(line))

\* line is a key:value line whose key is not empty after trimming
KeyValue(line) == HasColon(line) /\ Trimmed(BeforeColon(line)) /= <<>>

\* the lines of the text being parsed
ParsedLines == lines(parser.content)

\* C31 as stated: parse returns a map for every text, and every key:value
\* line whose key is non-empty after trimming is in the map with its value
\* trimmed, the key being the text before the first colon and the value all
\* that follows it.
C31_EveryPairInMap ==
    parser.called = "parse" =>
        \A i \in 1..Len(ParsedLines) :
            KeyValue(ParsedLines[i]) =>
                /\ Trimmed(BeforeColon(ParsedLines[i])) \in DOMAIN parser.ret
                /\ parser.ret[Trimmed(BeforeColon(ParsedLines[i]))]
                      = Trimmed(AfterColon(ParsedLines[i]))

\* C31, amended: parse returns a map for every text; its keys are the
\* trimmed keys of the key:value lines whose key is non-empty after
\* trimming, and each key has the trimmed value of the last line with that
\* key, the key being the text before the first colon and the value all
\* that follows it.
C31_LastPairOfEachKeyInMap ==
    parser.called = "parse" =>
        /\ DOMAIN parser.ret =
              {Trimmed(BeforeColon(ParsedLines[i])) :
                  i \in {j \in 1..Len(ParsedLines) : KeyValue(ParsedLines[j])}}
        /\ \A i \in 1..Len(ParsedLines) :
              (/\ KeyValue(ParsedLines[i])
               /\ \A j \in (i + 1)..Len(ParsedLines) :
                     KeyValue(ParsedLines[j]) =>
                        Trimmed(BeforeColon(ParsedLines[j]))
                            /= Trimmed(BeforeColon(ParsedLines[i])))
                  => parser.ret[Trimmed(BeforeColon(ParsedLines[i]))]
                        = Trimmed(AfterColon(ParsedLines[i]))

C31_Witness ==
    /\ parser.active
    /\ parser.called = "parse"
    /\ parser.content = <<"a", ":", LF, "a", ":", "a">>
    /\ parser.ret = (<<"a">> :> <<"a">>)

\* line is rejected by the strict parser: it is not blank, and it has no
\* colon or nothing but whitespace before its first colon
Rejected(line) ==
    /\ Trimmed(line) /= <<>>
    /\ (~HasColon(line) \/ Trimmed(BeforeColon(line)) = <<>>)

Accepted(line) == ~Rejected(line)

\* C34: try_parse fails exactly when some line that is not blank has no
\* colon or has an empty key (blank and empty being judged after trimming,
\* as the parsers do); the error carries the 1-based number of the first
\* such line, blank lines counted, the line and the reason. When try_parse
\* succeeds its entries are those of parse on the same text, and parse
\* returns what try_parse returns for the text without the rejected lines.
C34_StrictFailsWhereLenientSkips ==
    parser.called = "try_parse" =>
        LET rejected == {i \in 1..Len(ParsedLines) : Rejected(ParsedLines[i])}
            first == CHOOSE i \in rejected : \A j \in rejected : i <= j
        IN  /\ parser.ret.ok <=> rejected = {}
            /\ rejected /= {} =>
                  /\ parser.ret.err.line_number = first
                  /\ parser.ret.err.line = ParsedLines[first]
                  /\ parser.ret.err.message =
                        IF HasColon(ParsedLines[first]) THEN "empty key before colon"
                        ELSE "missing colon separator"
            /\ rejected = {} => parser.ret.val = parse(ParsedLines)
            /\ try_parse(SelectSeq(ParsedLines, Accepted), 0, <<>>) = Ok(parse(ParsedLines))

C34_Witness ==
    /\ parser.active
    /\ parser.called = "try_parse"
    /\ parser.content = <<"a", ":", "a", LF, LF, ":">>
    /\ ~parser.ret.ok
    /\ parser.ret.err.line_number = 3
    /\ parser.ret.err.message = "empty key before colon"
    /\ parse(ParsedLines) = (<<"a">> :> <<"a">>)

(***************************************************************************)
(* Properties of the ExecutionResult made from a meta file.                 *)
(***************************************************************************)

\* the lower-cased message the meta file was given has the text
MessageHas(pat) ==
    /\ parser.given.message /= None
    /\ contains(to_lowercase(parser.given.message[1]), pat)

\* the status of the result, from the status code the meta file was given
GivenStatus ==
    IF parser.given.status = None THEN "Ok"
    ELSE (("OK" :> "Ok") @@ ("RE" :> "RuntimeError") @@ ("TO" :> "TimeLimitExceeded")
            @@ ("SG" :> "Signaled") @@ ("XX" :> "InternalError")
            @@ ("??" :> "InternalError"))[parser.given.status[1]]

\* C32: limit_exceeded goes by the lower-cased message first: "time limit"
\* with "wall" gives WallTime, else "time limit" gives Time, else "memory"
\* gives Memory, else "output" gives Output; only when the message gives
\* nothing does status TimeLimitExceeded give Time, and anything else
\* NotExceeded. So a result with status TimeLimitExceeded never has
\* limit_exceeded = NotExceeded.
C32_LimitExceededPriority ==
    parser.called = "to_execution_result" =>
        /\ parser.ret.limit_exceeded =
              IF MessageHas("time limit") /\ MessageHas("wall") THEN "WallTime"
              ELSE IF MessageHas("time limit") THEN "Time"
              ELSE IF MessageHas("memory") THEN "Memory"
              ELSE IF MessageHas("output") THEN "Output"
              ELSE IF GivenStatus = "TimeLimitExceeded" THEN "Time"
              ELSE "NotExceeded"
        /\ parser.ret.status = "TimeLimitExceeded" =>
              parser.ret.limit_exceeded /= "NotExceeded"

C32_Witness ==
    /\ parser.active
    /\ parser.called = "to_execution_result"
    /\ parser.given.status = Some("TO")
    /\ parser.given.message = Some(<<"Out of memory", "Time limit exceeded">>)
    /\ parser.ret.limit_exceeded = "Time"

\* C33: is_success() holds exactly when status is Ok and exit_code is
\* Some(0); status is Ok when the meta file has no status key, the status
\* of the code for OK, RE, TO, SG and XX, and InternalError for any other
\* status text.
C33_SuccessIffOkAndExitZero ==
    parser.called = "is_success" =>
        /\ parser.ret.result.status = GivenStatus
        /\ parser.ret.result.exit_code =
              IF parser.given.exitcode = Some("0") THEN Some(0)
              ELSE IF parser.given.exitcode = Some("1") THEN Some(1)
              ELSE None
        /\ parser.ret.success <=>
              (parser.ret.result.status = "Ok" /\ parser.ret.result.exit_code = Some(0))
        /\ parser.ret.success <=>
              (parser.given.status \in {None, Some("OK")} /\ parser.given.exitcode = Some("0"))

C33_Witness ==
    /\ parser.active
    /\ parser.called = "is_success"
    /\ parser.given.status = None
    /\ parser.given.exitcode = Some("0")
    /\ parser.ret.success

(***************************************************************************)
(* Properties of the cgroup preparation and of the command-line program.    *)
(***************************************************************************)

\* what prepare_cgroup has done to the hierarchy so far, in order
Effects == cgroup_fs.effects

\* effect a was made before the i-th effect
Earlier(a, i) == \E j \in 1..(i - 1) : Effects[j] = a

\* prepare_cgroup has returned from a hierarchy on which it returns early:
\* no controllers file, no memory controller, or a cgroup root that has the
\* memory controller already
ReturnedEarly ==
    /\ cgroup_fs.ret /= None
    /\ \/ cgroup_fs.before.controllers /= "memory"
       \/ (cgroup_fs.before.root_dir /\ cgroup_fs.before.root_subtree = "memory")

\* C35: prepare_cgroup writes the root cgroup.subtree_control only after the
\* pid is written into init/cgroup.procs, and writes the subtree_control of
\* the configured cgroup root only after the root write and once that
\* directory exists; when it returns early (controllers file absent, memory
\* controller not listed, cgroup root with memory enabled already) it has
\* created no directory, written no file and not moved the process.
C35_PrepareStepOrder ==
    cgroup_fs.active =>
        /\ \A i \in 1..Len(Effects) :
              /\ Effects[i] = "write_procs" =>
                    (cgroup_fs.before.init_dir \/ Earlier("create_init", i))
              /\ Effects[i] = "write_root_control" => Earlier("write_procs", i)
              /\ Effects[i] = "write_root_subtree" =>
                    /\ Earlier("write_root_control", i)
                    /\ (cgroup_fs.before.root_dir \/ Earlier("create_root", i))
        /\ cgroup_fs.files.root_control => cgroup_fs.files.procs_in_init
        /\ cgroup_fs.files.procs_in_init => cgroup_fs.files.init_dir
        /\ Effects = <<>> => cgroup_fs.files = cgroup_fs.before
        /\ ReturnedEarly =>
              /\ Effects = <<>>
              /\ cgroup_fs.files = cgroup_fs.before
              /\ ~cgroup_fs.files.procs_in_init
              /\ cgroup_fs.ret \in
                    (IF cgroup_fs.before.controllers = "absent" THEN {Some(Ok(FALSE))}
                     ELSE IF cgroup_fs.before.controllers = "other"
                     THEN {Some(Ok(FALSE)), Some(Err("Io"))}
                     ELSE {Some(Ok(TRUE)), Some(Err("Io"))})
        /\ (cgroup_fs.ret = Some(Ok(TRUE)) /\ ~ReturnedEarly) =>
              /\ Effects[Len(Effects)] = "write_root_subtree"
              /\ cgroup_fs.files.root_dir
              /\ cgroup_fs.files.root_subtree = "memory"

C35_Witness ==
    /\ cgroup_fs.active
    /\ cgroup_fs.ret = Some(Ok(TRUE))
    /\ Effects = <<"create_init", "write_procs", "write_root_control", "create_root",
                   "write_root_subtree">>

\* C36: in the command-line program cgroup mode stays enabled after startup
\* only if prepare_cgroup returned ready; when it returns not-ready or an
\* error the configuration is downgraded before any box is acquired, so
\* every init, run and cleanup invocation of the program carries --cg only
\* if the cgroup preparation succeeded.
C36_CgOnlyAfterPreparation ==
    cgroup_fs.active =>
        LET ready == cgroup_fs.configured /\ cgroup_fs.ret = Some(Ok(TRUE))
        IN  /\ cgroup_fs.cli \in {"command", "pool"} => (config_cgroup <=> ready)
            /\ cgroup_fs.cli = "pool" => (pool_cgroup <=> ready)
            /\ cgroup_fs.cli /= "pool" =>
                  /\ acquired = <<>>
                  /\ last.call = NoCall
                  /\ \A t \in Tasks : ~box[t].exists /\ pc[t] = "cli"
            /\ last.call /= NoCall =>
                  /\ last.op \in {"init", "compile", "run", "cleanup", "detached_cleanup"}
                  /\ HasFlag(last.call, "--cg") <=> ready

C36_Witness ==
    /\ cgroup_fs.active
    /\ cgroup_fs.configured
    /\ cgroup_fs.ret = Some(Err("Io"))
    /\ cgroup_fs.effects /= <<>>
    /\ last.op = "run"
    /\ last.call /= NoCall
    /\ ~HasFlag(last.call, "--cg")

(***************************************************************************)
(* Properties of the stdin channel of an event stream.                      *)
(***************************************************************************)

\* the write calls not yet returned, the longest-waiting first
Suspended == stream.suspended

\* C39: the stdin channel between the handles and the task of an event
\* stream is bounded: at most 100 writes are queued at any time; a write
\* issued while the queue is full waits until there is room, its data
\* neither dropped nor reordered; and a write returns Terminated only after
\* the task has stopped.
C39_StdinChannelBounded ==
    /\ [](stream.active =>
            /\ Len(stream.queue) <= 100
            /\ stream.task = "running" =>
                  /\ stream.received \o stream.queue \o Suspended
                        = [i \in 1..stream.submitted |-> i]
                  /\ stream.failed = 0)
    /\ [][stream.active =>
            /\ (stream'.submitted /= stream.submitted /\ stream.task = "running"
                    /\ Len(stream.queue) = 100) =>
                  /\ stream'.suspended = Append(Suspended, stream'.submitted)
                  /\ stream'.queue = stream.queue
                  /\ stream'.write_ret = stream.write_ret
            /\ (stream'.suspended /= Suspended /\ stream'.submitted = stream.submitted) =>
                  /\ stream'.suspended = Tail(Suspended)
                  /\ stream'.write_ret.call = Head(Suspended)
                  /\ IF stream'.write_ret.ret = "Ok"
                     THEN /\ Len(stream.queue) < 100
                          /\ stream'.queue = Append(stream.queue, Head(Suspended))
                     ELSE stream.task = "stopped"
            /\ (stream'.write_ret /= stream.write_ret
                    /\ stream'.write_ret.ret = "Terminated") =>
                  stream.task = "stopped"]_vars

C39_Witness ==
    /\ stream.active
    /\ stream.task = "running"
    /\ stream.received = <<1>>
    /\ Len(stream.queue) = 100
    /\ stream.queue[100] = 101
    /\ stream.write_ret = [call |-> 101, ret |-> "Ok"]
    /\ Suspended = <<102>>

====
